---- MODULE Spec2Model ----
(***************************************************************************)
(* Booking availability, booking lifecycle and campaign creation of the    *)
(* billboard operations backend (BookingService, CampaignService,          *)
(* SequenceService), as a state machine over the rows of the bookings,     *)
(* campaigns and sequences tables.                                         *)
(*                                                                         *)
(* Calendar dates are day numbers, money is whole currency units, a        *)
(* missing DTO field is Undefined / UndefinedS and an SQL NULL is Null.     *)
(* Audit columns (createdBy, updatedBy, createdAt, updatedAt) and          *)
(* creativeRef are written but never read by any operation and are left    *)
(* out.                                                                    *)
(***************************************************************************)
EXTENDS Integers, Sequences, FiniteSets, TLC

\* ---------------------------------------------------------------- bounds
MaxDay == 2
MaxBookings == 2
MaxCampaigns == 1
MaxSlotInput == 2
MaxCalls == 3
MaxPurchaseOrders == 2
MaxPoCalls == 6

\* ------------------------------------------------------- optional values
Null == -1
Undefined == -2
UndefinedS == "undefined"

\* ------------------------------------------------------------ the tables
Year == 2024

Days == 1..MaxDay

\* rows of the billboards table (no operation modelled here changes them)
billboards ==
  [ S1 |-> [type |-> "static",  slotCount |-> Null, ratePerDay |-> 1000, status |-> "active"],
    D1 |-> [type |-> "digital", slotCount |-> 2,    ratePerDay |-> 500,  status |-> "active"],
    M1 |-> [type |-> "static",  slotCount |-> Null, ratePerDay |-> 1000, status |-> "maintenance"] ]

BillboardIds == DOMAIN billboards

\* the billboards requests are made for
RequestBillboardIds == {"S1", "D1"}

\* a billboard id that resolves to no row
NoBillboard == "B0"

Customers == {"c1", "c2"}

SEQUENCE_PREFIXES == [booking |-> "BK", campaign |-> "CP", po |-> "PO", invoice |-> "INV"]

SequenceEntityType == DOMAIN SEQUENCE_PREFIXES

VARIABLES
  bookings,       \* rows of the bookings table, by id
  nextBookingId,  \* number of booking ids handed out so far (ids are fresh)
  campaigns,      \* rows of the campaigns table, by id
  nextCampaignId, \* number of campaign ids handed out so far
  purchaseOrders, \* rows of the purchase_orders table, by id
  nextPurchaseOrderId, \* number of purchase order ids handed out so far
  sequences,      \* current_value of the sequences row of each entity type (0: no row)
  running,        \* the handlers that are between two of their statements, by caller
  returned,       \* the codes getNextSequence gave to those who called it directly,
                  \* in the order of its returns
  response,       \* outcome of the last service call: error message kind ("" on success)
                  \* and the reference codes it lists
  calls           \* number of service calls made so far

vars == <<bookings, nextBookingId, campaigns, nextCampaignId, purchaseOrders,
          nextPurchaseOrderId, sequences, running, returned, response, calls>>

\* ---------------------------------------------------------------- helpers
\* nextValue.toString().padStart(4, '0'), as its decimal digits
padStart4(n) ==
  IF n < 10000
    THEN <<(n \div 1000) % 10, (n \div 100) % 10, (n \div 10) % 10, n % 10>>
    ELSE <<n>>

\* `${prefix}-${year}-${paddedNumber}`
formatCode(entityType, n) == <<SEQUENCE_PREFIXES[entityType], Year, padStart4(n)>>

\* the day count without the + 1: the nights between the two dates
inclusiveDaysLessOne(startDate, endDate) == endDate - startDate

\* Math.ceil((end - start) / one day) + 1 on whole calendar dates
inclusiveDays(startDate, endDate) == (endDate - startDate) + 1

\* (rate * days).toFixed(2)
notionalFor(billboardId, startDate, endDate) ==
  billboards[billboardId].ratePerDay * inclusiveDays(startDate, endDate)

\* the outcome of a service call: the method, the error it threw ("" when it
\* returned) and the reference codes the error message lists
Ok(call) == [call |-> call, error |-> "", conflicts |-> {}]

Fail(call, msg) == [call |-> call, error |-> msg, conflicts |-> {}]

\* "... is not available for the selected dates. Conflicts with: <codes>"
NotAvailable(call, ids) ==
  [call |-> call, error |-> "not available",
   conflicts |-> {bookings[i].referenceCode : i \in ids}]

\* ------------------------------------------------------ availability engine
\* checkAvailability with an exclusive overlap test: ranges that only touch
\* on one day are let through
checkAvailabilityExclusive(query) ==
  IF query.billboardId \notin BillboardIds
    THEN [notFound |-> TRUE, available |-> FALSE, conflicts |-> {}]
    ELSE
      LET billboard == billboards[query.billboardId]
          rows == { i \in DOMAIN bookings :
                      /\ bookings[i].billboardId = query.billboardId
                      /\ bookings[i].startDate < query.endDate
                      /\ bookings[i].endDate > query.startDate
                      /\ (query.excludeBookingId # Undefined
                            => i # query.excludeBookingId)
                      /\ ((billboard.type = "digital" /\ query.slotNumber # Undefined)
                            => bookings[i].slotNumber = query.slotNumber) }
      IN [notFound |-> FALSE, available |-> rows = {}, conflicts |-> rows]

\* checkAvailability without the slot condition: every overlapping booking
\* on a digital billboard conflicts
checkAvailabilityAnySlot(query) ==
  IF query.billboardId \notin BillboardIds
    THEN [notFound |-> TRUE, available |-> FALSE, conflicts |-> {}]
    ELSE
      LET rows == { i \in DOMAIN bookings :
                      /\ bookings[i].billboardId = query.billboardId
                      /\ bookings[i].startDate <= query.endDate
                      /\ bookings[i].endDate >= query.startDate
                      /\ (query.excludeBookingId # Undefined
                            => i # query.excludeBookingId) }
      IN [notFound |-> FALSE, available |-> rows = {}, conflicts |-> rows]

\* checkAvailability taking a missing slot number as "no slot": only
\* bookings without a slot conflict with a request without one
checkAvailabilityNoSlotOnly(query) ==
  IF query.billboardId \notin BillboardIds
    THEN [notFound |-> TRUE, available |-> FALSE, conflicts |-> {}]
    ELSE
      LET billboard == billboards[query.billboardId]
          rows == { i \in DOMAIN bookings :
                      /\ bookings[i].billboardId = query.billboardId
                      /\ bookings[i].startDate <= query.endDate
                      /\ bookings[i].endDate >= query.startDate
                      /\ (query.excludeBookingId # Undefined
                            => i # query.excludeBookingId)
                      /\ billboard.type = "digital"
                            => bookings[i].slotNumber =
                                 (IF query.slotNumber = Undefined
                                    THEN Null ELSE query.slotNumber) }
      IN [notFound |-> FALSE, available |-> rows = {}, conflicts |-> rows]

\* checkAvailability reading a short-closed booking's actualEndDate as the
\* end of its range
checkAvailabilityActualEnd(query) ==
  IF query.billboardId \notin BillboardIds
    THEN [notFound |-> TRUE, available |-> FALSE, conflicts |-> {}]
    ELSE
      LET billboard == billboards[query.billboardId]
          rows == { i \in DOMAIN bookings :
                      /\ bookings[i].billboardId = query.billboardId
                      /\ bookings[i].startDate <= query.endDate
                      /\ (IF bookings[i].actualEndDate # Null
                            THEN bookings[i].actualEndDate
                            ELSE bookings[i].endDate) >= query.startDate
                      /\ (query.excludeBookingId # Undefined
                            => i # query.excludeBookingId)
                      /\ ((billboard.type = "digital" /\ query.slotNumber # Undefined)
                            => bookings[i].slotNumber = query.slotNumber) }
      IN [notFound |-> FALSE, available |-> rows = {}, conflicts |-> rows]

\* BookingService.checkAvailability on a bookings table holding the rows
\* table: the ids of the conflicting rows
checkAvailabilityIn(table, query) ==
  IF query.billboardId \notin BillboardIds
    THEN [notFound |-> TRUE, available |-> FALSE, conflicts |-> {}]
    ELSE
      LET billboard == billboards[query.billboardId]
          rows == { i \in DOMAIN table :
                      /\ table[i].billboardId = query.billboardId
                      /\ table[i].startDate <= query.endDate
                      /\ table[i].endDate >= query.startDate
                      /\ (query.excludeBookingId # Undefined
                            => i # query.excludeBookingId)
                      /\ ((billboard.type = "digital" /\ query.slotNumber # Undefined)
                            => table[i].slotNumber = query.slotNumber) }
      IN [notFound |-> FALSE, available |-> rows = {}, conflicts |-> rows]

\* BookingService.checkAvailability: the ids of the conflicting stored rows
checkAvailability(query) == checkAvailabilityIn(bookings, query)

\* SequenceService.getNextSequence: the counter after the upsert
nextSequenceValue(entityType) == sequences[entityType] + 1

Init ==
  /\ bookings = <<>>
  /\ nextBookingId = 0
  /\ campaigns = <<>>
  /\ nextCampaignId = 0
  /\ purchaseOrders = <<>>
  /\ nextPurchaseOrderId = 0
  /\ sequences = [t \in SequenceEntityType |-> 0]
  /\ running = <<>>
  /\ returned = <<>>
  /\ response = Ok("")
  /\ calls = 0

\* ------------------------------------------------------------ BookingService
\* the availability query createBooking makes
createBookingQuery(data) ==
  [billboardId |-> data.billboardId, startDate |-> data.startDate,
   endDate |-> data.endDate, slotNumber |-> data.slotNumber,
   excludeBookingId |-> Undefined]

\* the row createBooking inserts
createBookingRow(data) ==
  [referenceCode |-> formatCode("booking", nextSequenceValue("booking")),
   customerId    |-> data.customerId,
   billboardId   |-> data.billboardId,
   campaignId    |-> IF data.campaignId = Undefined THEN Null ELSE data.campaignId,
   slotNumber    |-> IF data.slotNumber \in {Undefined, 0} THEN Null ELSE data.slotNumber,
   startDate     |-> data.startDate,
   endDate       |-> data.endDate,
   actualEndDate |-> Null,
   notionalValue |-> IF data.notionalValue = Undefined
                       THEN notionalFor(data.billboardId, data.startDate, data.endDate)
                       ELSE data.notionalValue,
   status        |-> "created",
   notes         |-> IF data.notes = UndefinedS THEN <<>> ELSE <<data.notes>>]

\* what createBooking throws or returns
createBookingResponse(data) ==
  LET availability == checkAvailability(createBookingQuery(data))
  IN IF availability.notFound
       THEN Fail("createBooking", "Billboard not found")
     ELSE IF ~availability.available
       THEN NotAvailable("createBooking", availability.conflicts)
     ELSE IF data.campaignId # Undefined /\ data.campaignId \notin DOMAIN campaigns
       THEN Fail("createBooking", "foreign key violation")
     ELSE Ok("createBooking")

\* createBooking drawing the reference code before it checks availability
createBookingCodeFirst(data) ==
  LET result == createBookingResponse(data)
      id == nextBookingId + 1
  IN
  /\ response' = result
  /\ UNCHANGED <<purchaseOrders, nextPurchaseOrderId>>
  /\ sequences["booking"] < MaxBookings
  /\ sequences' = [sequences EXCEPT !["booking"] = nextSequenceValue("booking")]
  /\ IF result.error # ""
       THEN UNCHANGED <<bookings, nextBookingId, campaigns, nextCampaignId>>
       ELSE /\ nextBookingId < MaxBookings
            /\ nextBookingId' = id
            /\ bookings' = [i \in DOMAIN bookings \cup {id} |->
                              IF i = id THEN createBookingRow(data) ELSE bookings[i]]
            /\ UNCHANGED <<campaigns, nextCampaignId>>

createBooking(data) ==
  LET result == createBookingResponse(data)
      id == nextBookingId + 1
  IN
  /\ response' = result
  /\ UNCHANGED <<purchaseOrders, nextPurchaseOrderId>>
  /\ IF result.error \in {"Billboard not found", "not available"}
       THEN UNCHANGED <<bookings, nextBookingId, campaigns, nextCampaignId, sequences>>
     ELSE IF result.error = "foreign key violation"
       THEN \* the insert is refused after the reference code was drawn
            /\ sequences["booking"] < MaxBookings
            /\ sequences' = [sequences EXCEPT !["booking"] = nextSequenceValue("booking")]
            /\ UNCHANGED <<bookings, nextBookingId, campaigns, nextCampaignId>>
     ELSE /\ nextBookingId < MaxBookings
          /\ sequences["booking"] < MaxBookings
          /\ sequences' = [sequences EXCEPT !["booking"] = nextSequenceValue("booking")]
          /\ nextBookingId' = id
          /\ bookings' = [i \in DOMAIN bookings \cup {id} |->
                            IF i = id THEN createBookingRow(data) ELSE bookings[i]]
          /\ UNCHANGED <<campaigns, nextCampaignId>>

\* the non-editable list without its last entry
nonEditableStatusesShort == {"completed", "po_generated"}

\* the statuses after which updateBooking refuses every edit
nonEditableStatuses == {"completed", "po_generated", "invoiced"}

\* whether updateBooking re-checks availability for this payload
updateBookingChecks(data) ==
  \/ data.startDate # Undefined
  \/ data.endDate # Undefined
  \/ data.billboardId # UndefinedS
  \/ data.slotNumber # Undefined

\* updateBooking's availability query without excludeBookingId
updateBookingQueryWithSelf(id, data) ==
  LET existingBooking == bookings[id]
      slot == IF data.slotNumber # Undefined THEN data.slotNumber
                                             ELSE existingBooking.slotNumber
  IN [billboardId |-> IF data.billboardId # UndefinedS
                        THEN data.billboardId ELSE existingBooking.billboardId,
      startDate |-> IF data.startDate # Undefined
                      THEN data.startDate ELSE existingBooking.startDate,
      endDate |-> IF data.endDate # Undefined
                    THEN data.endDate ELSE existingBooking.endDate,
      slotNumber |-> IF slot = Null THEN Undefined ELSE slot,
      excludeBookingId |-> Undefined]

\* the availability query updateBooking makes for booking id
updateBookingQuery(id, data) ==
  LET existingBooking == bookings[id]
      slot == IF data.slotNumber # Undefined THEN data.slotNumber
                                             ELSE existingBooking.slotNumber
  IN [billboardId |-> IF data.billboardId # UndefinedS
                        THEN data.billboardId ELSE existingBooking.billboardId,
      startDate |-> IF data.startDate # Undefined
                      THEN data.startDate ELSE existingBooking.startDate,
      endDate |-> IF data.endDate # Undefined
                    THEN data.endDate ELSE existingBooking.endDate,
      slotNumber |-> IF slot = Null THEN Undefined ELSE slot,
      excludeBookingId |-> id]

\* the row after updateBooking's UPDATE: the fields the payload carries
updateBookingRow(id, data) ==
  [bookings[id] EXCEPT
     !.customerId    = IF data.customerId # UndefinedS THEN data.customerId ELSE @,
     !.billboardId   = IF data.billboardId # UndefinedS THEN data.billboardId ELSE @,
     !.campaignId    = IF data.campaignId # Undefined THEN data.campaignId ELSE @,
     !.slotNumber    = IF data.slotNumber # Undefined THEN data.slotNumber ELSE @,
     !.startDate     = IF data.startDate # Undefined THEN data.startDate ELSE @,
     !.endDate       = IF data.endDate # Undefined THEN data.endDate ELSE @,
     !.notionalValue = IF data.notionalValue # Undefined THEN data.notionalValue ELSE @,
     !.status        = IF data.status # UndefinedS THEN data.status ELSE @,
     !.notes         = IF data.notes # UndefinedS THEN <<data.notes>> ELSE @]

\* what updateBooking throws or returns
updateBookingResponse(id, data) ==
  IF id \notin DOMAIN bookings
    THEN Fail("updateBooking", "Booking not found")
  ELSE IF bookings[id].status \in nonEditableStatuses
    THEN Fail("updateBooking", "Cannot edit booking")
  ELSE
    LET availability == checkAvailability(updateBookingQuery(id, data))
    IN IF updateBookingChecks(data) /\ availability.notFound
         THEN Fail("updateBooking", "Billboard not found")
       ELSE IF updateBookingChecks(data) /\ ~availability.available
         THEN NotAvailable("updateBooking", availability.conflicts)
       ELSE IF data.campaignId \notin {Undefined, Null} /\ data.campaignId \notin DOMAIN campaigns
         THEN Fail("updateBooking", "foreign key violation")
       ELSE Ok("updateBooking")

updateBooking(id, data) ==
  LET result == updateBookingResponse(id, data)
  IN
  /\ response' = result
  /\ UNCHANGED <<purchaseOrders, nextPurchaseOrderId>>
  /\ IF result.error # ""
       THEN UNCHANGED <<bookings, nextBookingId, campaigns, nextCampaignId, sequences>>
       ELSE /\ bookings' = [bookings EXCEPT ![id] = updateBookingRow(id, data)]
            /\ UNCHANGED <<nextBookingId, campaigns, nextCampaignId, sequences>>

\* deleteBooking's checks on a purchase_orders table whose booking_id is
\* no foreign key
deleteBookingResponseNoForeignKey(id) ==
  IF id \notin DOMAIN bookings
    THEN Fail("deleteBooking", "Booking not found")
  ELSE IF bookings[id].status # "created"
    THEN Fail("deleteBooking", "Only bookings in created status can be deleted")
  ELSE Ok("deleteBooking")

\* deleteBooking's checks letting confirmed bookings through as well
deleteBookingResponseLax(id) ==
  IF id \notin DOMAIN bookings
    THEN Fail("deleteBooking", "Booking not found")
  ELSE IF bookings[id].status \notin {"created", "confirmed"}
    THEN Fail("deleteBooking", "Only bookings in created status can be deleted")
  ELSE IF \E p \in DOMAIN purchaseOrders : purchaseOrders[p].bookingId = id
    THEN Fail("deleteBooking", "foreign key violation")
  ELSE Ok("deleteBooking")

\* what deleteBooking throws or returns
deleteBookingResponse(id) ==
  IF id \notin DOMAIN bookings
    THEN Fail("deleteBooking", "Booking not found")
  ELSE IF bookings[id].status # "created"
    THEN Fail("deleteBooking", "Only bookings in created status can be deleted")
  \* purchase_orders.booking_id references bookings.id ON DELETE RESTRICT
  ELSE IF \E p \in DOMAIN purchaseOrders : purchaseOrders[p].bookingId = id
    THEN Fail("deleteBooking", "foreign key violation")
  ELSE Ok("deleteBooking")

deleteBooking(id) ==
  LET result == deleteBookingResponse(id)
  IN
  /\ response' = result
  /\ UNCHANGED <<purchaseOrders, nextPurchaseOrderId>>
  /\ IF result.error # ""
       THEN UNCHANGED <<bookings, nextBookingId, campaigns, nextCampaignId, sequences>>
       ELSE /\ bookings' = [i \in DOMAIN bookings \ {id} |-> bookings[i]]
            /\ UNCHANGED <<nextBookingId, campaigns, nextCampaignId, sequences>>

validStatuses == {"created", "confirmed", "active", "completed", "po_generated", "invoiced"}

\* updateBookingStatus's checks with invoiced made a final status
updateBookingStatusResponseForward(id, status) ==
  IF status \notin validStatuses
    THEN Fail("updateBookingStatus", "Invalid status")
  ELSE IF id \in DOMAIN bookings /\ bookings[id].status = "invoiced"
    THEN Fail("updateBookingStatus", "Invalid status")
  ELSE Ok("updateBookingStatus")

\* what updateBookingStatus throws or returns
updateBookingStatusResponse(id, status) ==
  IF status \notin validStatuses
    THEN Fail("updateBookingStatus", "Invalid status")
    ELSE Ok("updateBookingStatus")

updateBookingStatus(id, status) ==
  LET result == updateBookingStatusResponse(id, status)
  IN
  /\ response' = result
  /\ UNCHANGED <<purchaseOrders, nextPurchaseOrderId>>
  /\ IF result.error # ""
       THEN UNCHANGED <<bookings, nextBookingId, campaigns, nextCampaignId, sequences>>
       ELSE \* UPDATE ... WHERE id = ...: no row, no error
            /\ bookings' = [i \in DOMAIN bookings |->
                              IF i = id THEN [bookings[i] EXCEPT !.status = status]
                                        ELSE bookings[i]]
            /\ UNCHANGED <<nextBookingId, campaigns, nextCampaignId, sequences>>

\* the statuses from which a booking can be short closed
shortCloseStatuses == {"created", "confirmed", "active"}

\* shortCloseBooking's checks with the end-date comparison made exclusive
shortCloseBookingResponseLate(id, actualEndDate) ==
  IF id \notin DOMAIN bookings
    THEN Fail("shortCloseBooking", "Booking not found")
  ELSE IF bookings[id].status \notin shortCloseStatuses
    THEN Fail("shortCloseBooking", "Cannot short close booking")
  ELSE IF actualEndDate > bookings[id].endDate
    THEN Fail("shortCloseBooking", "Actual end date must be before the original end date")
  ELSE IF actualEndDate < bookings[id].startDate
    THEN Fail("shortCloseBooking", "Actual end date cannot be before the start date")
  ELSE Ok("shortCloseBooking")

\* what shortCloseBooking throws or returns
shortCloseBookingResponse(id, actualEndDate) ==
  IF id \notin DOMAIN bookings
    THEN Fail("shortCloseBooking", "Booking not found")
  ELSE IF bookings[id].status \notin shortCloseStatuses
    THEN Fail("shortCloseBooking", "Cannot short close booking")
  ELSE IF actualEndDate >= bookings[id].endDate
    THEN Fail("shortCloseBooking", "Actual end date must be before the original end date")
  ELSE IF actualEndDate < bookings[id].startDate
    THEN Fail("shortCloseBooking", "Actual end date cannot be before the start date")
  ELSE Ok("shortCloseBooking")

\* the notes shortCloseBooking writes
shortCloseNotes(notes, reason) ==
  IF notes # <<>> THEN notes \o <<"\n\nShort Closed: ", reason>>
                  ELSE <<"Short Closed: ", reason>>

\* shortCloseBooking moving the booking's endDate instead of keeping it
shortCloseBookingTruncating(id, actualEndDate, reason) ==
  LET result == shortCloseBookingResponse(id, actualEndDate)
  IN
  /\ response' = result
  /\ UNCHANGED <<purchaseOrders, nextPurchaseOrderId>>
  /\ IF result.error # ""
       THEN UNCHANGED <<bookings, nextBookingId, campaigns, nextCampaignId, sequences>>
       ELSE /\ bookings' = [bookings EXCEPT
                              ![id].actualEndDate = actualEndDate,
                              ![id].endDate = actualEndDate,
                              ![id].status = "completed",
                              ![id].notes = shortCloseNotes(@, reason)]
            /\ UNCHANGED <<nextBookingId, campaigns, nextCampaignId, sequences>>

shortCloseBooking(id, actualEndDate, reason) ==
  LET result == shortCloseBookingResponse(id, actualEndDate)
  IN
  /\ response' = result
  /\ UNCHANGED <<purchaseOrders, nextPurchaseOrderId>>
  /\ IF result.error # ""
       THEN UNCHANGED <<bookings, nextBookingId, campaigns, nextCampaignId, sequences>>
       ELSE /\ bookings' = [bookings EXCEPT
                              ![id].actualEndDate = actualEndDate,
                              ![id].status = "completed",
                              ![id].notes = shortCloseNotes(@, reason)]
            /\ UNCHANGED <<nextBookingId, campaigns, nextCampaignId, sequences>>

\* ----------------------------------------------------------- CampaignService
\* the availability query createCampaign makes for its k-th selection
createCampaignQuery(data, k) ==
  [billboardId |-> data.billboards[k].billboardId,
   startDate |-> data.startDate, endDate |-> data.endDate,
   slotNumber |-> data.billboards[k].slotNumber,
   excludeBookingId |-> Undefined]

\* the booking rows after createCampaign's inserts for selections k..Len, ids
\* and sequence numbers counted from the values before the call
RECURSIVE campaignBookings(_, _, _, _)
campaignBookings(data, campaignId, k, acc) ==
  IF k > Len(data.billboards) THEN acc
  ELSE
    LET selection == data.billboards[k]
        id == nextBookingId + k
        row == [referenceCode |-> formatCode("booking", sequences["booking"] + k),
                customerId    |-> data.customerId,
                billboardId   |-> selection.billboardId,
                campaignId    |-> campaignId,
                slotNumber    |-> IF selection.slotNumber \in {Undefined, 0}
                                    THEN Null ELSE selection.slotNumber,
                startDate     |-> data.startDate,
                endDate       |-> data.endDate,
                actualEndDate |-> Null,
                notionalValue |-> notionalFor(selection.billboardId, data.startDate, data.endDate),
                status        |-> "created",
                notes         |-> <<>>]
    IN campaignBookings(data, campaignId, k + 1,
         [i \in DOMAIN acc \cup {id} |-> IF i = id THEN row ELSE acc[i]])

\* totalValue += parseFloat(notionalValue) over the rows inserted
RECURSIVE sumNotional(_, _)
sumNotional(rows, ids) ==
  IF ids = {} THEN 0
  ELSE LET i == CHOOSE j \in ids : TRUE
       IN rows[i].notionalValue + sumNotional(rows, ids \ {i})

\* the first selection, in request order, that is not available (0: none)
firstUnavailable(data) ==
  LET bad == { k \in 1..Len(data.billboards) :
                 ~checkAvailability(createCampaignQuery(data, k)).available }
  IN IF bad = {} THEN 0 ELSE CHOOSE k \in bad : \A j \in bad : k <= j

\* what createCampaign throws or returns
createCampaignResponse(data) ==
  IF Len(data.billboards) = 0
    THEN Fail("createCampaign", "At least one billboard must be selected")
  ELSE IF data.startDate = Undefined \/ data.endDate = Undefined
    THEN Fail("createCampaign", "Start date and end date are required")
  ELSE
    LET billboardIds == [k \in 1..Len(data.billboards) |-> data.billboards[k].billboardId]
        \* WHERE id IN (...): one row per distinct id that exists
        billboardDetails == {billboardIds[k] : k \in 1..Len(billboardIds)} \cap BillboardIds
        bad == firstUnavailable(data)
    IN IF Cardinality(billboardDetails) # Len(billboardIds)
         THEN Fail("createCampaign", "One or more billboards not found")
       ELSE IF bad # 0
         THEN NotAvailable("createCampaign",
                           checkAvailability(createCampaignQuery(data, bad)).conflicts)
       ELSE Ok("createCampaign")

\* createCampaign drawing the campaign code before it checks availability
createCampaignCodeFirst(data) ==
  LET result == createCampaignResponse(data)
      n == Len(data.billboards)
      cid == nextCampaignId + 1
      rows == campaignBookings(data, cid, 1, bookings)
      created == (nextBookingId + 1)..(nextBookingId + n)
  IN
  /\ response' = result
  /\ UNCHANGED <<purchaseOrders, nextPurchaseOrderId>>
  /\ IF result.error = "not available"
       THEN /\ sequences' = [sequences EXCEPT
                               !["campaign"] = nextSequenceValue("campaign")]
            /\ UNCHANGED <<bookings, nextBookingId, campaigns, nextCampaignId>>
     ELSE IF result.error # ""
       THEN UNCHANGED <<bookings, nextBookingId, campaigns, nextCampaignId, sequences>>
       ELSE /\ nextCampaignId < MaxCampaigns
            /\ nextBookingId + n <= MaxBookings
            /\ sequences["booking"] + n <= MaxBookings
            /\ sequences' = [sequences EXCEPT
                               !["campaign"] = nextSequenceValue("campaign"),
                               !["booking"] = @ + n]
            /\ nextCampaignId' = cid
            /\ campaigns' = [c \in DOMAIN campaigns \cup {cid} |->
                               IF c = cid
                                 THEN [referenceCode |-> formatCode("campaign",
                                                           nextSequenceValue("campaign")),
                                       customerId    |-> data.customerId,
                                       startDate     |-> data.startDate,
                                       endDate       |-> data.endDate,
                                       totalValue    |-> sumNotional(rows, created)]
                                 ELSE campaigns[c]]
            /\ nextBookingId' = nextBookingId + n
            /\ bookings' = rows

createCampaign(data) ==
  LET result == createCampaignResponse(data)
      n == Len(data.billboards)
      cid == nextCampaignId + 1
      rows == campaignBookings(data, cid, 1, bookings)
      created == (nextBookingId + 1)..(nextBookingId + n)
  IN
  /\ response' = result
  /\ UNCHANGED <<purchaseOrders, nextPurchaseOrderId>>
  /\ IF result.error # ""
       THEN UNCHANGED <<bookings, nextBookingId, campaigns, nextCampaignId, sequences>>
       ELSE /\ nextCampaignId < MaxCampaigns
            /\ nextBookingId + n <= MaxBookings
            /\ sequences["booking"] + n <= MaxBookings
            /\ sequences' = [sequences EXCEPT
                               !["campaign"] = nextSequenceValue("campaign"),
                               !["booking"] = @ + n]
            /\ nextCampaignId' = cid
            /\ campaigns' = [c \in DOMAIN campaigns \cup {cid} |->
                               IF c = cid
                                 THEN [referenceCode |-> formatCode("campaign",
                                                           nextSequenceValue("campaign")),
                                       customerId    |-> data.customerId,
                                       startDate     |-> data.startDate,
                                       endDate       |-> data.endDate,
                                       totalValue    |-> sumNotional(rows, created)]
                                 ELSE campaigns[c]]
            /\ nextBookingId' = nextBookingId + n
            /\ bookings' = rows

\* the bookings that reference a campaign, among rows
campaignMembers(rows, campaignId) ==
  { i \in DOMAIN rows : rows[i].campaignId = campaignId }

\* MIN(start_date) over the members (SQL NULL over no rows)
minStartDate(rows, ids) ==
  IF ids = {} THEN Null
  ELSE CHOOSE d \in {rows[i].startDate : i \in ids} :
         \A i \in ids : d <= rows[i].startDate

\* MAX(end_date) over the members (SQL NULL over no rows)
maxEndDate(rows, ids) ==
  IF ids = {} THEN Null
  ELSE CHOOSE d \in {rows[i].endDate : i \in ids} :
         \A i \in ids : d >= rows[i].endDate

\* updateCampaignTotals recomputing the value and leaving the dates alone
updateCampaignTotalsValueOnly(rows, campaignId) ==
  [campaigns EXCEPT
     ![campaignId].totalValue = sumNotional(rows, campaignMembers(rows, campaignId))]

\* updateCampaignTotals: the campaigns table after the totals of campaignId
\* are recomputed from the booking rows
updateCampaignTotals(rows, campaignId) ==
  LET members == campaignMembers(rows, campaignId)
  IN [campaigns EXCEPT
        ![campaignId].totalValue = sumNotional(rows, members),
        ![campaignId].startDate = minStartDate(rows, members),
        ![campaignId].endDate = maxEndDate(rows, members)]

\* what addBookingToCampaign throws or returns
addBookingToCampaignResponse(campaignId, bookingId) ==
  IF campaignId \notin DOMAIN campaigns
    THEN Fail("addBookingToCampaign", "Campaign not found")
  ELSE IF bookingId \notin DOMAIN bookings
    THEN Fail("addBookingToCampaign", "Booking not found")
  ELSE IF bookings[bookingId].customerId # campaigns[campaignId].customerId
    THEN Fail("addBookingToCampaign",
              "Booking must belong to the same customer as the campaign")
  ELSE Ok("addBookingToCampaign")

addBookingToCampaign(campaignId, bookingId) ==
  LET result == addBookingToCampaignResponse(campaignId, bookingId)
      rows == [bookings EXCEPT ![bookingId].campaignId = campaignId]
  IN
  /\ response' = result
  /\ UNCHANGED <<purchaseOrders, nextPurchaseOrderId>>
  /\ IF result.error # ""
       THEN UNCHANGED <<bookings, nextBookingId, campaigns, nextCampaignId, sequences>>
       ELSE /\ bookings' = rows
            /\ campaigns' = updateCampaignTotals(rows, campaignId)
            /\ UNCHANGED <<nextBookingId, nextCampaignId, sequences>>

\* what removeBookingFromCampaign throws or returns
removeBookingFromCampaignResponse(campaignId, bookingId) ==
  IF bookingId \notin DOMAIN bookings \/ bookings[bookingId].campaignId # campaignId
    THEN Fail("removeBookingFromCampaign", "Booking not found in this campaign")
  ELSE Ok("removeBookingFromCampaign")

removeBookingFromCampaign(campaignId, bookingId) ==
  LET result == removeBookingFromCampaignResponse(campaignId, bookingId)
      rows == [bookings EXCEPT ![bookingId].campaignId = Null]
  IN
  /\ response' = result
  /\ UNCHANGED <<purchaseOrders, nextPurchaseOrderId>>
  /\ IF result.error # ""
       THEN UNCHANGED <<bookings, nextBookingId, campaigns, nextCampaignId, sequences>>
       ELSE /\ bookings' = rows
            /\ campaigns' = updateCampaignTotals(rows, campaignId)
            /\ UNCHANGED <<nextBookingId, nextCampaignId, sequences>>

\* the query getAvailableBillboards makes for a billboard, with or without
\* a slot number
listingQuery(billboardId, startDate, endDate, slotNumber) ==
  [billboardId |-> billboardId, startDate |-> startDate, endDate |-> endDate,
   slotNumber |-> slotNumber, excludeBookingId |-> Undefined]

\* the slot numbers from 1 to slotCount, in order
slotNumbers(slotCount) == [k \in 1..slotCount |-> k]

\* getAvailableBillboards taking a digital billboard's isAvailable from the
\* query without a slot number
getAvailableBillboardsResultWholeBoard(startDate, endDate) ==
  LET allBillboards == {b \in DOMAIN billboards : billboards[b].status = "active"}
  IN [b \in allBillboards |->
        LET billboard == billboards[b]
            availability == checkAvailability(listingQuery(b, startDate, endDate, Undefined))
            free(slot) == checkAvailability(listingQuery(b, startDate, endDate, slot)).available
        IN IF billboard.type = "digital" /\ billboard.slotCount \notin {Null, 0}
             THEN [isAvailable    |-> availability.available,
                   availableSlots |-> SelectSeq(slotNumbers(billboard.slotCount), free),
                   conflicts      |-> availability.conflicts]
             ELSE [isAvailable    |-> availability.available,
                   availableSlots |-> <<>>,
                   conflicts      |-> availability.conflicts]]

\* what getAvailableBillboards returns: an entry per active billboard
getAvailableBillboardsResult(startDate, endDate) ==
  LET allBillboards == {b \in DOMAIN billboards : billboards[b].status = "active"}
  IN [b \in allBillboards |->
        LET billboard == billboards[b]
            availability == checkAvailability(listingQuery(b, startDate, endDate, Undefined))
            free(slot) == checkAvailability(listingQuery(b, startDate, endDate, slot)).available
        IN IF billboard.type = "digital" /\ billboard.slotCount \notin {Null, 0}
             THEN LET availableSlots == SelectSeq(slotNumbers(billboard.slotCount), free)
                  IN [isAvailable    |-> Len(availableSlots) > 0,
                      availableSlots |-> availableSlots,
                      conflicts      |-> availability.conflicts]
             ELSE [isAvailable    |-> availability.available,
                   availableSlots |-> <<>>,
                   conflicts      |-> availability.conflicts]]

\* getAvailableBillboards only reads; its result is kept with the outcome
getAvailableBillboards(startDate, endDate) ==
  /\ response' = [call |-> "getAvailableBillboards", error |-> "", conflicts |-> {},
                  result |-> getAvailableBillboardsResult(startDate, endDate)]
  /\ UNCHANGED <<bookings, nextBookingId, campaigns, nextCampaignId, purchaseOrders,
                 nextPurchaseOrderId, sequences>>

\* ------------------------------------------------------ PurchaseOrderService
\* getPurchaseOrderByBookingId: the purchase orders of a booking
purchaseOrdersOf(bookingId) ==
  { p \in DOMAIN purchaseOrders : purchaseOrders[p].bookingId = bookingId }

\* the booking statuses from which createPurchaseOrder generates a PO
poStatuses == {"completed", "confirmed", "active"}

\* createPurchaseOrder's checks without the lookup of an existing purchase order
createPurchaseOrderResponseNoLookup(data) ==
  IF data.bookingId \notin DOMAIN bookings
    THEN Fail("createPurchaseOrder", "Booking not found")
  ELSE IF bookings[data.bookingId].status \notin poStatuses
    THEN Fail("createPurchaseOrder", "Cannot generate PO for booking")
  ELSE Ok("createPurchaseOrder")

\* what createPurchaseOrder throws or returns
createPurchaseOrderResponse(data) ==
  IF data.bookingId \notin DOMAIN bookings
    THEN Fail("createPurchaseOrder", "Booking not found")
  ELSE IF purchaseOrdersOf(data.bookingId) # {}
    THEN Fail("createPurchaseOrder", "Purchase order already exists for this booking")
  ELSE IF bookings[data.bookingId].status \notin poStatuses
    THEN Fail("createPurchaseOrder", "Cannot generate PO for booking")
  ELSE Ok("createPurchaseOrder")

\* the purchase order row createPurchaseOrder inserts
createPurchaseOrderRow(data) ==
  [poNumber        |-> formatCode("po", nextSequenceValue("po")),
   bookingId       |-> data.bookingId,
   actualStartDate |-> data.actualStartDate,
   actualEndDate   |-> data.actualEndDate,
   actualValue     |-> IF data.actualValue # Undefined
                         THEN data.actualValue
                         ELSE notionalFor(bookings[data.bookingId].billboardId,
                                          data.actualStartDate, data.actualEndDate)]

createPurchaseOrder(data) ==
  LET result == createPurchaseOrderResponse(data)
      id == nextPurchaseOrderId + 1
  IN
  /\ response' = result
  /\ UNCHANGED <<campaigns, nextCampaignId, nextBookingId>>
  /\ IF result.error # ""
       THEN UNCHANGED <<bookings, purchaseOrders, nextPurchaseOrderId, sequences>>
       ELSE /\ nextPurchaseOrderId < MaxPurchaseOrders
            /\ sequences' = [sequences EXCEPT !["po"] = nextSequenceValue("po")]
            /\ nextPurchaseOrderId' = id
            /\ purchaseOrders' = [p \in DOMAIN purchaseOrders \cup {id} |->
                                    IF p = id THEN createPurchaseOrderRow(data)
                                              ELSE purchaseOrders[p]]
            \* bookingService.updateBookingStatus(bookingId, 'po_generated')
            /\ bookings' = [bookings EXCEPT ![data.bookingId].status = "po_generated"]

\* what deletePurchaseOrder throws before it changes anything
deletePurchaseOrderResponse(id) ==
  IF id \notin DOMAIN purchaseOrders
    THEN Fail("deletePurchaseOrder", "Purchase order not found")
    ELSE Ok("deletePurchaseOrder")

\* deletePurchaseOrder's first part without the status write
deletePurchaseOrderRevertSkipped(caller, id) ==
  LET result == deletePurchaseOrderResponse(id)
  IN
  /\ caller \notin DOMAIN running
  /\ UNCHANGED <<campaigns, nextCampaignId, nextBookingId, purchaseOrders,
                 nextPurchaseOrderId, sequences, bookings, returned>>
  /\ IF result.error # ""
       THEN /\ response' = result
            /\ UNCHANGED running
       ELSE /\ running' = [c \in DOMAIN running \cup {caller} |->
                             IF c = caller
                               THEN [call |-> "deletePurchaseOrder", id |-> id]
                               ELSE running[c]]
            \* no outcome yet: the handler has not returned
            /\ response' = Ok("")

\* deletePurchaseOrder up to and including its first write: the booking's
\* status is set back to completed
deletePurchaseOrderRevert(caller, id) ==
  LET result == deletePurchaseOrderResponse(id)
  IN
  /\ caller \notin DOMAIN running
  /\ UNCHANGED <<campaigns, nextCampaignId, nextBookingId, purchaseOrders,
                 nextPurchaseOrderId, sequences, returned>>
  /\ IF result.error # ""
       THEN /\ response' = result
            /\ UNCHANGED <<bookings, running>>
       ELSE /\ bookings' = [bookings EXCEPT
                              ![purchaseOrders[id].bookingId].status = "completed"]
            /\ running' = [c \in DOMAIN running \cup {caller} |->
                             IF c = caller
                               THEN [call |-> "deletePurchaseOrder", id |-> id]
                               ELSE running[c]]
            \* no outcome yet: the handler has not returned
            /\ response' = Ok("")

\* deletePurchaseOrder's second write: the purchase order row is deleted
deletePurchaseOrderDelete(caller) ==
  /\ caller \in DOMAIN running
  /\ running[caller].call = "deletePurchaseOrder"
  /\ purchaseOrders' = [p \in DOMAIN purchaseOrders \ {running[caller].id} |->
                          purchaseOrders[p]]
  /\ running' = [c \in DOMAIN running \ {caller} |-> running[c]]
  /\ response' = Ok("deletePurchaseOrder")
  /\ UNCHANGED <<bookings, nextBookingId, campaigns, nextCampaignId,
                 nextPurchaseOrderId, sequences, returned, calls>>

\* (x).toFixed(2) of the quotient a / b, in hundredths: the nearest
\* hundredth, a half going away from zero; a quotient that is not a number
\* or not finite prints as its name
toFixed2(a, b) ==
  LET abs(n) == IF n < 0 THEN -n ELSE n
      sign == IF (a < 0) = (b < 0) THEN 1 ELSE -1
  IN IF b = 0
       THEN IF a = 0 THEN "NaN" ELSE IF a > 0 THEN "Infinity" ELSE "-Infinity"
       ELSE sign * ((2 * abs(a) * 100 + abs(b)) \div (2 * abs(b)))

\* calculateProRataValue's figures with the adjustment taken the other way
\* round, notional less actual
proRataReversed(booking, ratePerDay, actualStartDate, actualEndDate) ==
  LET originalDays == inclusiveDays(booking.startDate, booking.endDate)
      actualDays == inclusiveDays(actualStartDate, actualEndDate)
      actualValue == ratePerDay * actualDays
      adjustment == booking.notionalValue - actualValue
  IN [originalDays |-> originalDays, actualDays |-> actualDays,
      ratePerDay |-> ratePerDay, notionalValue |-> booking.notionalValue,
      actualValue |-> actualValue, adjustment |-> adjustment,
      adjustmentPercentage |-> toFixed2(adjustment * 100, booking.notionalValue)]

\* the figures calculateProRataValue returns for a booking row and the rate
\* of its billboard
proRata(booking, ratePerDay, actualStartDate, actualEndDate) ==
  LET originalDays == inclusiveDays(booking.startDate, booking.endDate)
      actualDays == inclusiveDays(actualStartDate, actualEndDate)
      actualValue == ratePerDay * actualDays
      adjustment == actualValue - booking.notionalValue
  IN [originalDays |-> originalDays, actualDays |-> actualDays,
      ratePerDay |-> ratePerDay, notionalValue |-> booking.notionalValue,
      actualValue |-> actualValue, adjustment |-> adjustment,
      adjustmentPercentage |-> toFixed2(adjustment * 100, booking.notionalValue)]

\* what calculateProRataValue throws or returns
calculateProRataValueResponse(bookingId, actualStartDate, actualEndDate) ==
  IF \/ bookingId \notin DOMAIN bookings
     \/ bookings[bookingId].billboardId \notin DOMAIN billboards
    THEN [call |-> "calculateProRataValue", error |-> "Booking or billboard not found",
          conflicts |-> {}, result |-> <<>>]
    ELSE [call |-> "calculateProRataValue", error |-> "", conflicts |-> {},
          result |-> proRata(bookings[bookingId],
                             billboards[bookings[bookingId].billboardId].ratePerDay,
                             actualStartDate, actualEndDate)]

\* calculateProRataValue only reads; its result is kept with the outcome
calculateProRataValue(bookingId, actualStartDate, actualEndDate) ==
  /\ response' = calculateProRataValueResponse(bookingId, actualStartDate, actualEndDate)
  /\ UNCHANGED <<bookings, nextBookingId, campaigns, nextCampaignId, purchaseOrders,
                 nextPurchaseOrderId, sequences>>

\* -------------------------------------------------------- SequenceService
MaxSequence == 3

\* getNextSequence's statement done as a read followed by a write: a caller
\* that starts while another one's value for the same entity type has not
\* been returned yet reads the counter that one read
getNextSequenceUpsertReadThenWrite(caller, entityType) ==
  LET others == {c \in DOMAIN running :
                   /\ running[c].call = "getNextSequence"
                   /\ running[c].entityType = entityType}
      nextValue == IF others = {}
                     THEN nextSequenceValue(entityType)
                     ELSE running[CHOOSE c \in others : TRUE].nextValue
  IN
  /\ caller \notin DOMAIN running
  /\ sequences[entityType] < MaxSequence
  /\ sequences' = [sequences EXCEPT ![entityType] = nextValue]
  /\ running' = [c \in DOMAIN running \cup {caller} |->
                   IF c = caller
                     THEN [call |-> "getNextSequence", entityType |-> entityType,
                           nextValue |-> nextValue]
                     ELSE running[c]]
  /\ response' = Ok("")
  /\ UNCHANGED <<bookings, nextBookingId, campaigns, nextCampaignId, purchaseOrders,
                 nextPurchaseOrderId, returned, calls>>

\* getNextSequence's one statement, INSERT ... ON CONFLICT DO UPDATE ...
\* RETURNING current_value: the database runs it atomically, and the caller
\* holds the returned value until it resumes
getNextSequenceUpsert(caller, entityType) ==
  LET nextValue == nextSequenceValue(entityType)
  IN
  /\ caller \notin DOMAIN running
  /\ sequences[entityType] < MaxSequence
  /\ sequences' = [sequences EXCEPT ![entityType] = nextValue]
  /\ running' = [c \in DOMAIN running \cup {caller} |->
                   IF c = caller
                     THEN [call |-> "getNextSequence", entityType |-> entityType,
                           nextValue |-> nextValue]
                     ELSE running[c]]
  \* no outcome yet: the handler has not returned
  /\ response' = Ok("")
  /\ UNCHANGED <<bookings, nextBookingId, campaigns, nextCampaignId, purchaseOrders,
                 nextPurchaseOrderId, returned, calls>>

\* getNextSequence after the await: the code is formatted and returned
getNextSequenceReturn(caller) ==
  /\ caller \in DOMAIN running
  /\ running[caller].call = "getNextSequence"
  /\ returned' = Append(returned, formatCode(running[caller].entityType,
                                             running[caller].nextValue))
  /\ running' = [c \in DOMAIN running \ {caller} |-> running[c]]
  /\ response' = Ok("getNextSequence")
  /\ UNCHANGED <<bookings, nextBookingId, campaigns, nextCampaignId, purchaseOrders,
                 nextPurchaseOrderId, sequences, calls>>

\* ------------------------------------- the handlers statement by statement
\* createBooking and createCampaign await the database several times; between
\* two awaits the handlers of other requests run.  A handler under way is an
\* entry of running: its payload, the statement it is before (pc), and what
\* it holds in its local variables.
MaxRaceCalls == 3

\* running with the entry of caller set to entry
runningWith(caller, entry) ==
  [c \in DOMAIN running \cup {caller} |-> IF c = caller THEN entry ELSE running[c]]

\* running without the entry of caller
runningWithout(caller) == [c \in DOMAIN running \ {caller} |-> running[c]]

\* the booking rows a handler under way has still to insert
toInsert(entry) ==
  IF entry.call = "createBooking" THEN 1
  ELSE IF entry.call = "createCampaign"
    THEN IF entry.pc \in {"bookingCode", "insertBooking"}
           THEN Len(entry.data.billboards) - entry.k + 1
         ELSE IF entry.pc = "total" THEN 0
         ELSE Len(entry.data.billboards)
  ELSE 0

RECURSIVE sumToInsert(_)
sumToInsert(callers) ==
  IF callers = {} THEN 0
  ELSE LET c == CHOOSE x \in callers : TRUE
       IN toInsert(running[c]) + sumToInsert(callers \ {c})

\* a request is taken up while the rows it may insert fit the tables
roomFor(n) == nextBookingId + sumToInsert(DOMAIN running) + n <= MaxBookings

start(caller) ==
  /\ caller \notin DOMAIN running
  /\ calls < MaxRaceCalls
  /\ calls' = calls + 1

\* createBooking up to the end of its availability check
createBookingCheck(caller, data) ==
  LET availability == checkAvailability(createBookingQuery(data))
  IN
  /\ start(caller)
  /\ roomFor(1)
  /\ IF availability.notFound
       THEN /\ response' = Fail("createBooking", "Billboard not found")
            /\ UNCHANGED running
     ELSE IF ~availability.available
       THEN /\ response' = NotAvailable("createBooking", availability.conflicts)
            /\ UNCHANGED running
     ELSE /\ running' = runningWith(caller, [call |-> "createBooking", data |-> data,
                                             pc |-> "code", referenceCode |-> <<>>])
          /\ response' = Ok("")
  /\ UNCHANGED <<bookings, nextBookingId, campaigns, nextCampaignId, purchaseOrders,
                 nextPurchaseOrderId, sequences, returned>>

\* createBooking's getNextSequence('booking')
createBookingCode(caller) ==
  /\ caller \in DOMAIN running
  /\ running[caller].call = "createBooking"
  /\ running[caller].pc = "code"
  /\ sequences' = [sequences EXCEPT !["booking"] = nextSequenceValue("booking")]
  /\ running' = runningWith(caller,
                  [running[caller] EXCEPT
                     !.pc = "insert",
                     !.referenceCode = formatCode("booking", nextSequenceValue("booking"))])
  /\ response' = Ok("")
  /\ UNCHANGED <<bookings, nextBookingId, campaigns, nextCampaignId, purchaseOrders,
                 nextPurchaseOrderId, returned, calls>>

\* the insert of a bookings table that refuses a row overlapping a stored
\* one on the same billboard and slot
createBookingInsertResponseExcluding(caller) ==
  LET data == running[caller].data
      availability == checkAvailability(createBookingQuery(data))
  IN IF data.campaignId # Undefined /\ data.campaignId \notin DOMAIN campaigns
       THEN Fail("createBooking", "foreign key violation")
     ELSE IF ~availability.available
       THEN Fail("createBooking", "exclusion violation")
     ELSE Ok("createBooking")

\* what createBooking's INSERT throws or returns: the table has its foreign
\* keys and the unique reference code, and no constraint on dates
createBookingInsertResponse(caller) ==
  LET data == running[caller].data
  IN IF data.campaignId # Undefined /\ data.campaignId \notin DOMAIN campaigns
       THEN Fail("createBooking", "foreign key violation")
     ELSE Ok("createBooking")

\* createBooking's INSERT and return
createBookingInsert(caller) ==
  /\ caller \in DOMAIN running
  /\ running[caller].call = "createBooking"
  /\ running[caller].pc = "insert"
  /\ LET result == createBookingInsertResponse(caller)
         id == nextBookingId + 1
     IN /\ response' = result
        /\ IF result.error # ""
             THEN UNCHANGED <<bookings, nextBookingId>>
             ELSE /\ nextBookingId' = id
                  /\ bookings' = [i \in DOMAIN bookings \cup {id} |->
                                    IF i = id
                                      THEN [createBookingRow(running[caller].data) EXCEPT
                                              !.referenceCode = running[caller].referenceCode]
                                      ELSE bookings[i]]
  /\ running' = runningWithout(caller)
  /\ UNCHANGED <<campaigns, nextCampaignId, purchaseOrders, nextPurchaseOrderId,
                 sequences, returned, calls>>

\* what createCampaign throws before its availability checks
createCampaignValidation(data) ==
  IF Len(data.billboards) = 0
    THEN Fail("createCampaign", "At least one billboard must be selected")
  ELSE IF data.startDate = Undefined \/ data.endDate = Undefined
    THEN Fail("createCampaign", "Start date and end date are required")
  ELSE
    LET billboardIds == [k \in 1..Len(data.billboards) |-> data.billboards[k].billboardId]
        billboardDetails == {billboardIds[k] : k \in 1..Len(billboardIds)} \cap BillboardIds
    IN IF Cardinality(billboardDetails) # Len(billboardIds)
         THEN Fail("createCampaign", "One or more billboards not found")
         ELSE Ok("createCampaign")

\* createCampaign up to the lookup of its billboards
createCampaignStart(caller, data) ==
  LET result == createCampaignValidation(data)
  IN
  /\ start(caller)
  /\ roomFor(Len(data.billboards))
  /\ nextCampaignId + Cardinality({c \in DOMAIN running :
                                     running[c].call = "createCampaign"}) < MaxCampaigns
  /\ IF result.error # ""
       THEN /\ response' = result
            /\ UNCHANGED running
       ELSE /\ running' = runningWith(caller,
                            [call |-> "createCampaign", data |-> data, pc |-> "check",
                             k |-> 1, referenceCode |-> <<>>, campaignId |-> Null,
                             totalValue |-> 0])
            /\ response' = Ok("")
  /\ UNCHANGED <<bookings, nextBookingId, campaigns, nextCampaignId, purchaseOrders,
                 nextPurchaseOrderId, sequences, returned>>

\* createCampaign's availability check of its k-th selection
createCampaignCheck(caller) ==
  /\ caller \in DOMAIN running
  /\ running[caller].call = "createCampaign"
  /\ running[caller].pc = "check"
  /\ LET entry == running[caller]
         availability == checkAvailability(createCampaignQuery(entry.data, entry.k))
     IN IF ~availability.available
          THEN /\ response' = NotAvailable("createCampaign", availability.conflicts)
               /\ running' = runningWithout(caller)
          ELSE /\ response' = Ok("")
               /\ running' = runningWith(caller,
                    IF entry.k < Len(entry.data.billboards)
                      THEN [entry EXCEPT !.k = @ + 1]
                      ELSE [entry EXCEPT !.pc = "code"])
  /\ UNCHANGED <<bookings, nextBookingId, campaigns, nextCampaignId, purchaseOrders,
                 nextPurchaseOrderId, sequences, returned, calls>>

\* createCampaign's getNextSequence('campaign')
createCampaignCode(caller) ==
  /\ caller \in DOMAIN running
  /\ running[caller].call = "createCampaign"
  /\ running[caller].pc = "code"
  /\ sequences' = [sequences EXCEPT !["campaign"] = nextSequenceValue("campaign")]
  /\ running' = runningWith(caller,
                  [running[caller] EXCEPT
                     !.pc = "insertCampaign",
                     !.referenceCode = formatCode("campaign", nextSequenceValue("campaign"))])
  /\ response' = Ok("")
  /\ UNCHANGED <<bookings, nextBookingId, campaigns, nextCampaignId, purchaseOrders,
                 nextPurchaseOrderId, returned, calls>>

\* createCampaign's INSERT of the campaign row, totalValue '0'
createCampaignInsertCampaign(caller) ==
  /\ caller \in DOMAIN running
  /\ running[caller].call = "createCampaign"
  /\ running[caller].pc = "insertCampaign"
  /\ LET entry == running[caller]
         cid == nextCampaignId + 1
     IN /\ nextCampaignId' = cid
        /\ campaigns' = [c \in DOMAIN campaigns \cup {cid} |->
                           IF c = cid
                             THEN [referenceCode |-> entry.referenceCode,
                                   customerId    |-> entry.data.customerId,
                                   startDate     |-> entry.data.startDate,
                                   endDate       |-> entry.data.endDate,
                                   totalValue    |-> 0]
                             ELSE campaigns[c]]
        /\ running' = runningWith(caller,
                        [entry EXCEPT !.pc = "bookingCode", !.k = 1, !.campaignId = cid])
  /\ response' = Ok("")
  /\ UNCHANGED <<bookings, nextBookingId, purchaseOrders, nextPurchaseOrderId,
                 sequences, returned, calls>>

\* createCampaign's getNextSequence('booking') for its k-th selection
createCampaignBookingCode(caller) ==
  /\ caller \in DOMAIN running
  /\ running[caller].call = "createCampaign"
  /\ running[caller].pc = "bookingCode"
  /\ LET entry == running[caller]
         selection == entry.data.billboards[entry.k]
     IN running' = runningWith(caller,
                     [entry EXCEPT
                        !.pc = "insertBooking",
                        !.totalValue = @ + notionalFor(selection.billboardId,
                                                       entry.data.startDate,
                                                       entry.data.endDate),
                        !.referenceCode = formatCode("booking",
                                                     nextSequenceValue("booking"))])
  /\ sequences' = [sequences EXCEPT !["booking"] = nextSequenceValue("booking")]
  /\ response' = Ok("")
  /\ UNCHANGED <<bookings, nextBookingId, campaigns, nextCampaignId, purchaseOrders,
                 nextPurchaseOrderId, returned, calls>>

\* createCampaign's INSERT of the booking of its k-th selection
createCampaignInsertBooking(caller) ==
  /\ caller \in DOMAIN running
  /\ running[caller].call = "createCampaign"
  /\ running[caller].pc = "insertBooking"
  /\ LET entry == running[caller]
         selection == entry.data.billboards[entry.k]
         id == nextBookingId + 1
         row == [referenceCode |-> entry.referenceCode,
                 customerId    |-> entry.data.customerId,
                 billboardId   |-> selection.billboardId,
                 campaignId    |-> entry.campaignId,
                 slotNumber    |-> IF selection.slotNumber \in {Undefined, 0}
                                     THEN Null ELSE selection.slotNumber,
                 startDate     |-> entry.data.startDate,
                 endDate       |-> entry.data.endDate,
                 actualEndDate |-> Null,
                 notionalValue |-> notionalFor(selection.billboardId,
                                               entry.data.startDate, entry.data.endDate),
                 status        |-> "created",
                 notes         |-> <<>>]
     IN /\ nextBookingId' = id
        /\ bookings' = [i \in DOMAIN bookings \cup {id} |->
                          IF i = id THEN row ELSE bookings[i]]
        /\ running' = runningWith(caller,
                        IF entry.k < Len(entry.data.billboards)
                          THEN [entry EXCEPT !.pc = "bookingCode", !.k = @ + 1]
                          ELSE [entry EXCEPT !.pc = "total"])
  /\ response' = Ok("")
  /\ UNCHANGED <<campaigns, nextCampaignId, purchaseOrders, nextPurchaseOrderId,
                 sequences, returned, calls>>

\* createCampaign's UPDATE of the campaign's totalValue, and its return
createCampaignTotal(caller) ==
  /\ caller \in DOMAIN running
  /\ running[caller].call = "createCampaign"
  /\ running[caller].pc = "total"
  /\ campaigns' = [c \in DOMAIN campaigns |->
                     IF c = running[caller].campaignId
                       THEN [campaigns[c] EXCEPT !.totalValue = running[caller].totalValue]
                       ELSE campaigns[c]]
  /\ running' = runningWithout(caller)
  /\ response' = Ok("createCampaign")
  /\ UNCHANGED <<bookings, nextBookingId, nextCampaignId, purchaseOrders,
                 nextPurchaseOrderId, sequences, returned, calls>>

\* the statements of createCampaign that follow the insert of the campaign row
afterCampaignInsert == {"bookingCode", "insertBooking", "total"}

\* a failing statement of createCampaign inside a transaction: what the
\* handler wrote is undone
createCampaignThrowRolledBack(caller) ==
  /\ caller \in DOMAIN running
  /\ running[caller].call = "createCampaign"
  /\ running[caller].pc \in afterCampaignInsert
  /\ campaigns' = [c \in DOMAIN campaigns \ {running[caller].campaignId} |-> campaigns[c]]
  /\ bookings' = [i \in {j \in DOMAIN bookings :
                           bookings[j].campaignId # running[caller].campaignId} |->
                    bookings[i]]
  /\ running' = runningWithout(caller)
  /\ response' = Fail("createCampaign", "database error")
  /\ UNCHANGED <<nextBookingId, nextCampaignId, purchaseOrders,
                 nextPurchaseOrderId, sequences, returned, calls>>

\* the statement createCampaign is before fails (the sequence call, the
\* booking insert or the update of totalValue): the error leaves the handler,
\* which has no transaction and no catch
createCampaignThrow(caller) ==
  /\ caller \in DOMAIN running
  /\ running[caller].call = "createCampaign"
  /\ running[caller].pc \in afterCampaignInsert
  /\ running' = runningWithout(caller)
  /\ response' = Fail("createCampaign", "database error")
  /\ UNCHANGED <<bookings, nextBookingId, campaigns, nextCampaignId, purchaseOrders,
                 nextPurchaseOrderId, sequences, returned, calls>>

\* ------------------------------------------------------------------ inputs
MaxPayloadFields == 2
MaxSelections == 2

SlotInputs == {Undefined} \cup (1..MaxSlotInput)

BookingIds == 1..MaxBookings

CampaignIds == 1..MaxCampaigns

StatusInputs == validStatuses \cup {"cancelled"}

Reasons == {"r"}

CreateBookingDtos ==
  [customerId : Customers, billboardId : RequestBillboardIds \cup {NoBillboard},
   campaignId : {Undefined} \cup CampaignIds, slotNumber : SlotInputs,
   startDate : Days, endDate : Days, notionalValue : {Undefined, 700},
   notes : {UndefinedS, "n"}]

\* The filtered input sets are written { dto : dto \in { ... } } so that the
\* filter is applied once and the result kept as an enumerated set.

\* the number of fields a payload sets
fieldCount(data) ==
  LET one(present) == IF present THEN 1 ELSE 0
  IN one(data.customerId # UndefinedS) + one(data.billboardId # UndefinedS)
     + one(data.campaignId # Undefined) + one(data.slotNumber # Undefined)
     + one(data.startDate # Undefined) + one(data.endDate # Undefined)
     + one(data.notionalValue # Undefined) + one(data.status # UndefinedS)
     + one(data.notes # UndefinedS)

UpdateBookingDtos ==
  { dto : dto \in
    { data \in
        [customerId : {UndefinedS} \cup Customers,
         billboardId : {UndefinedS, NoBillboard} \cup RequestBillboardIds,
         campaignId : {Undefined, Null} \cup CampaignIds,
         slotNumber : {Null} \cup SlotInputs,
         startDate : {Undefined} \cup Days, endDate : {Undefined} \cup Days,
         notionalValue : {Undefined, 700},
         status : {UndefinedS} \cup StatusInputs,
         notes : {UndefinedS, "n"}] :
        fieldCount(data) <= MaxPayloadFields } }

Selections == [billboardId : RequestBillboardIds \cup {NoBillboard}, slotNumber : SlotInputs]

SelectionLists == UNION { [1..n -> Selections] : n \in 0..MaxSelections }

CreateCampaignDtos ==
  [customerId : Customers, startDate : {Undefined} \cup Days,
   endDate : {Undefined} \cup Days, billboards : SelectionLists]

\* ----------------------------------------------------- the whole service
\* one request, run to completion while no other handler is under way
CallWithin(limit, handler) ==
  /\ running = <<>>
  /\ calls < limit
  /\ calls' = calls + 1
  /\ handler
  /\ UNCHANGED <<running, returned>>

Call(handler) == CallWithin(MaxCalls, handler)

\* ------------------------------------------- availability: who blocks whom
\* The availability engine reads a booking's id, billboard, slot and dates
\* and nothing else.  Requests that differ only in the customer, the value,
\* the notes or the campaign link are one request here; the status changes
\* are the one that ends editing ("completed") and one outside the
\* enumerated statuses ("cancelled"); createCampaign is given its dates and
\* existing billboards.
AvailCreateBookingDtos ==
  { dto : dto \in
    { data \in CreateBookingDtos :
        /\ data.customerId = "c1" /\ data.campaignId = Undefined
        /\ data.notionalValue = Undefined /\ data.notes = UndefinedS } }

AvailUpdateBookingDtos ==
  { dto : dto \in
    { data \in
        [customerId : {UndefinedS},
         billboardId : {UndefinedS, NoBillboard} \cup RequestBillboardIds,
         campaignId : {Undefined},
         slotNumber : {Null} \cup SlotInputs,
         startDate : {Undefined} \cup Days, endDate : {Undefined} \cup Days,
         notionalValue : {Undefined},
         status : {UndefinedS, "cancelled"},
         notes : {UndefinedS}] :
        fieldCount(data) <= MaxPayloadFields } }

AvailCreateCampaignDtos ==
  { dto : dto \in
    { data \in CreateCampaignDtos :
        /\ data.customerId = "c1"
        /\ data.startDate # Undefined /\ data.endDate # Undefined
        /\ Len(data.billboards) > 0
        /\ \A k \in 1..Len(data.billboards) : data.billboards[k].billboardId # NoBillboard } }

AvailStatusInputs == {"completed"}

NextAvail ==
  \/ \E data \in AvailCreateBookingDtos : Call(createBooking(data))
  \/ \E id \in BookingIds, data \in AvailUpdateBookingDtos : Call(updateBooking(id, data))
  \/ \E id \in BookingIds : Call(deleteBooking(id))
  \/ \E id \in BookingIds, status \in AvailStatusInputs : Call(updateBookingStatus(id, status))
  \/ \E data \in AvailCreateCampaignDtos : Call(createCampaign(data))

SpecAvail == Init /\ [][NextAvail]_vars

\* ------------------------------------------------------ booking lifecycle
\* The status, the dates, the value and the notes of bookings on the static
\* billboard: what updateBooking, updateBookingStatus, shortCloseBooking and
\* deleteBooking decide on and change.
LifeCreateBookingDtos ==
  { dto : dto \in
    { data \in CreateBookingDtos :
        /\ data.customerId = "c1" /\ data.campaignId = Undefined
        /\ data.notionalValue = Undefined
        /\ data.billboardId = "S1" /\ data.slotNumber = Undefined } }

LifeUpdateBookingDtos ==
  { dto : dto \in
    { data \in
        [customerId : {UndefinedS}, billboardId : {UndefinedS},
         campaignId : {Undefined}, slotNumber : {Undefined},
         startDate : {Undefined} \cup Days, endDate : {Undefined} \cup Days,
         notionalValue : {Undefined, 700},
         status : {UndefinedS} \cup StatusInputs,
         notes : {UndefinedS, "n"}] :
        fieldCount(data) <= MaxPayloadFields } }

NextLife ==
  \/ \E data \in LifeCreateBookingDtos : Call(createBooking(data))
  \/ \E id \in BookingIds, data \in LifeUpdateBookingDtos : Call(updateBooking(id, data))
  \/ \E id \in BookingIds : Call(deleteBooking(id))
  \/ \E id \in BookingIds, status \in StatusInputs : Call(updateBookingStatus(id, status))
  \/ \E id \in BookingIds, d \in Days, reason \in Reasons : Call(shortCloseBooking(id, d, reason))

SpecLife == Init /\ [][NextLife]_vars

\* ------------------------------------------------------ campaign contents
\* Campaigns and the bookings that reference them: createCampaign requests
\* that can succeed, bookings made and edited outside the campaign operations
\* (their notes and status left alone), and the membership operations.
CampCreateBookingDtos ==
  [customerId : Customers, billboardId : RequestBillboardIds,
   campaignId : {Undefined} \cup CampaignIds, slotNumber : {Undefined},
   startDate : Days, endDate : Days, notionalValue : {Undefined},
   notes : {UndefinedS}]

CampUpdateBookingDtos ==
  { dto : dto \in
    { data \in
        [customerId : {UndefinedS}, billboardId : {UndefinedS},
         campaignId : {Undefined, Null} \cup CampaignIds,
         slotNumber : {Undefined},
         startDate : {Undefined} \cup Days, endDate : {Undefined} \cup Days,
         notionalValue : {Undefined, 700},
         status : {UndefinedS}, notes : {UndefinedS}] :
        fieldCount(data) = 1 } }

\* campaigns of one static and one digital billboard, or of either alone
CampCreateCampaignDtos ==
  [customerId : Customers, startDate : Days, endDate : Days,
   billboards : { <<[billboardId |-> "S1", slotNumber |-> Undefined]>>,
                  <<[billboardId |-> "D1", slotNumber |-> 1]>>,
                  <<[billboardId |-> "S1", slotNumber |-> Undefined],
                    [billboardId |-> "D1", slotNumber |-> 1]>> }]

NextCampaign ==
  \/ \E data \in CampCreateBookingDtos : Call(createBooking(data))
  \/ \E data \in CampCreateCampaignDtos : Call(createCampaign(data))
  \/ \E id \in BookingIds, data \in CampUpdateBookingDtos : Call(updateBooking(id, data))
  \/ \E id \in BookingIds : Call(deleteBooking(id))
  \/ \E campaignId \in CampaignIds, bookingId \in BookingIds :
       Call(addBookingToCampaign(campaignId, bookingId))
  \/ \E campaignId \in CampaignIds, bookingId \in BookingIds :
       Call(removeBookingFromCampaign(campaignId, bookingId))

SpecCampaign == Init /\ [][NextCampaign]_vars

\* ------------------------------------------------------ campaign creation
\* createCampaign with every request shape (the customer, which no check of
\* createCampaign reads, fixed), on a table filled by createBooking.
AnyCreateCampaignDtos ==
  { dto : dto \in { data \in CreateCampaignDtos : data.customerId = "c1" } }

NextCreate ==
  \/ \E data \in AvailCreateBookingDtos : Call(createBooking(data))
  \/ \E data \in AnyCreateCampaignDtos : Call(createCampaign(data))

SpecCreate == Init /\ [][NextCreate]_vars

\* ---------------------------------------------------------- purchase orders
\* Bookings on the static billboard, their status set freely, and the
\* purchase orders made and deleted for them.
PoCreateBookingDtos ==
  [customerId : {"c1"}, billboardId : {"S1"}, campaignId : {Undefined},
   slotNumber : {Undefined}, startDate : {1}, endDate : Days,
   notionalValue : {Undefined}, notes : {UndefinedS}]

CreatePurchaseOrderDtos ==
  [bookingId : BookingIds, actualStartDate : {1}, actualEndDate : Days,
   actualValue : {Undefined, 700}]

PurchaseOrderIds == 1..MaxPurchaseOrders

NextPo ==
  \/ \E data \in PoCreateBookingDtos : CallWithin(MaxPoCalls, createBooking(data))
  \/ \E id \in BookingIds, status \in StatusInputs :
       CallWithin(MaxPoCalls, updateBookingStatus(id, status))
  \/ \E id \in BookingIds : CallWithin(MaxPoCalls, deleteBooking(id))
  \/ \E data \in CreatePurchaseOrderDtos : CallWithin(MaxPoCalls, createPurchaseOrder(data))
  \/ \E id \in PurchaseOrderIds :
       /\ running = <<>>
       /\ calls < MaxPoCalls
       /\ calls' = calls + 1
       /\ deletePurchaseOrderRevert(1, id)
  \/ deletePurchaseOrderDelete(1)

SpecPo == Init /\ [][NextPo]_vars

\* concurrent callers of getNextSequence
MaxCallers == 3

Callers == 1..MaxCallers

\* the entity types the callers draw codes for
CallerEntityTypes == {"booking", "po"}

NextSequence ==
  \/ \E caller \in Callers, entityType \in CallerEntityTypes :
       getNextSequenceUpsert(caller, entityType)
  \/ \E caller \in Callers : getNextSequenceReturn(caller)

SpecSequence == Init /\ [][NextSequence]_vars

\* listing the available billboards between bookings being made and moved
NextListing ==
  \/ \E data \in AvailCreateBookingDtos : Call(createBooking(data))
  \/ \E id \in BookingIds : Call(deleteBooking(id))
  \/ \E startDate \in Days, endDate \in Days :
       Call(getAvailableBillboards(startDate, endDate))

SpecListing == Init /\ [][NextListing]_vars

\* pro-rata figures for bookings made with and without a value of their own
ProRataCreateBookingDtos ==
  [customerId : {"c1"}, billboardId : RequestBillboardIds, campaignId : {Undefined},
   slotNumber : {Undefined}, startDate : Days, endDate : Days,
   notionalValue : {Undefined, 700}, notes : {UndefinedS}]

NextProRata ==
  \/ \E data \in ProRataCreateBookingDtos : Call(createBooking(data))
  \/ \E id \in BookingIds, actualStartDate \in Days, actualEndDate \in Days :
       Call(calculateProRataValue(id, actualStartDate, actualEndDate))

SpecProRata == Init /\ [][NextProRata]_vars

\* create requests of two callers, statement by statement
RaceCreateBookingDtos ==
  [customerId : {"c1"}, billboardId : RequestBillboardIds, campaignId : {Undefined},
   slotNumber : {Undefined, 1}, startDate : {1}, endDate : Days,
   notionalValue : {Undefined}, notes : {UndefinedS}]

RaceCreateCampaignDtos ==
  [customerId : {"c1"}, startDate : {1}, endDate : Days,
   billboards : { <<[billboardId |-> "S1", slotNumber |-> Undefined]>>,
                  <<[billboardId |-> "D1", slotNumber |-> 1],
                    [billboardId |-> "S1", slotNumber |-> Undefined]>> }]

RaceCallers == 1..2

NextRace ==
  \/ \E caller \in RaceCallers, data \in RaceCreateBookingDtos :
       createBookingCheck(caller, data)
  \/ \E caller \in RaceCallers : createBookingCode(caller)
  \/ \E caller \in RaceCallers : createBookingInsert(caller)
  \/ \E caller \in RaceCallers, data \in RaceCreateCampaignDtos :
       createCampaignStart(caller, data)
  \/ \E caller \in RaceCallers : createCampaignCheck(caller)
  \/ \E caller \in RaceCallers : createCampaignCode(caller)
  \/ \E caller \in RaceCallers : createCampaignInsertCampaign(caller)
  \/ \E caller \in RaceCallers : createCampaignBookingCode(caller)
  \/ \E caller \in RaceCallers : createCampaignInsertBooking(caller)
  \/ \E caller \in RaceCallers : createCampaignTotal(caller)
  \/ \E caller \in RaceCallers : createCampaignThrow(caller)

SpecRace == Init /\ [][NextRace]_vars

\* slot numbers as the validators admit them (isInt({min: 1})): requests on
\* the digital billboard for a slot up to one beyond those of SlotInputs
MaxSlotRequest == 3

SlotRequests == {Undefined} \cup (1..MaxSlotRequest)

SlotCreateBookingDtos ==
  [customerId : {"c1"}, billboardId : {"D1"}, campaignId : {Undefined},
   slotNumber : SlotRequests, startDate : Days, endDate : Days,
   notionalValue : {Undefined}, notes : {UndefinedS}]

SlotUpdateBookingDtos ==
  { dto : dto \in
    { data \in
        [customerId : {UndefinedS}, billboardId : {UndefinedS},
         campaignId : {Undefined}, slotNumber : SlotRequests,
         startDate : {Undefined} \cup Days, endDate : {Undefined} \cup Days,
         notionalValue : {Undefined}, status : {UndefinedS}, notes : {UndefinedS}] :
        fieldCount(data) = 1 } }

SlotCreateCampaignDtos ==
  [customerId : {"c1"}, startDate : Days, endDate : Days,
   billboards : { <<[billboardId |-> "D1", slotNumber |-> k]>> : k \in SlotRequests }]

NextSlots ==
  \/ \E data \in SlotCreateBookingDtos : Call(createBooking(data))
  \/ \E id \in BookingIds, data \in SlotUpdateBookingDtos : Call(updateBooking(id, data))
  \/ \E data \in SlotCreateCampaignDtos : Call(createCampaign(data))

SpecSlots == Init /\ [][NextSlots]_vars

\* every operation, with every input
Next ==
  \/ \E data \in CreateBookingDtos : Call(createBooking(data))
  \/ \E id \in BookingIds, data \in UpdateBookingDtos : Call(updateBooking(id, data))
  \/ \E id \in BookingIds : Call(deleteBooking(id))
  \/ \E id \in BookingIds, status \in StatusInputs : Call(updateBookingStatus(id, status))
  \/ \E id \in BookingIds, d \in Days, reason \in Reasons : Call(shortCloseBooking(id, d, reason))
  \/ \E data \in CreateCampaignDtos : Call(createCampaign(data))
  \/ \E campaignId \in CampaignIds, bookingId \in BookingIds :
       Call(addBookingToCampaign(campaignId, bookingId))
  \/ \E campaignId \in CampaignIds, bookingId \in BookingIds :
       Call(removeBookingFromCampaign(campaignId, bookingId))
  \/ \E startDate \in Days, endDate \in Days :
       Call(getAvailableBillboards(startDate, endDate))
  \/ \E id \in BookingIds, actualStartDate \in Days, actualEndDate \in Days :
       Call(calculateProRataValue(id, actualStartDate, actualEndDate))
  \/ \E data \in CreatePurchaseOrderDtos : Call(createPurchaseOrder(data))
  \/ \E caller \in Callers, id \in PurchaseOrderIds :
       /\ calls < MaxCalls
       /\ calls' = calls + 1
       /\ deletePurchaseOrderRevert(caller, id)
  \/ \E caller \in Callers : deletePurchaseOrderDelete(caller)
  \/ \E caller \in Callers, entityType \in SequenceEntityType :
       getNextSequenceUpsert(caller, entityType)
  \/ \E caller \in Callers : getNextSequenceReturn(caller)

Spec == Init /\ [][Next]_vars

\* ------------------------------------------------------------------ claims
\* the inclusive ranges [s1, e1] and [s2, e2] overlap
Overlap(s1, e1, s2, e2) == s1 <= e2 /\ e1 >= s2

isStatic(b) == billboards[b].type # "digital"

isDigital(b) == billboards[b].type = "digital"

\* the queries a caller can put to the availability engine
Queries ==
  [billboardId : RequestBillboardIds, startDate : Days, endDate : Days,
   slotNumber : SlotInputs, excludeBookingId : {Undefined} \cup BookingIds]

\* C1: no two stored bookings on the same billboard have overlapping
\* inclusive date ranges, unless the billboard is digital and the two
\* bookings carry different slot numbers.
C1_NoDoubleBooking ==
  \A i \in DOMAIN bookings : \A j \in DOMAIN bookings :
    ( /\ i # j
      /\ bookings[i].billboardId = bookings[j].billboardId
      /\ Overlap(bookings[i].startDate, bookings[i].endDate,
                 bookings[j].startDate, bookings[j].endDate) )
    => ( /\ isDigital(bookings[i].billboardId)
         /\ bookings[i].slotNumber # Null
         /\ bookings[j].slotNumber # Null
         /\ bookings[i].slotNumber # bookings[j].slotNumber )

\* C2: on a static billboard the conflicts checkAvailability returns are
\* exactly the stored bookings on that billboard, other than the excluded
\* one, whose range [s', e'] has s <= e' and e >= s', whatever slot is asked
\* for or stored, and available is false exactly when there is one.
C2_StaticConflicts ==
  \A query \in Queries :
    isStatic(query.billboardId) =>
      LET result == checkAvailability(query)
          expected == { i \in DOMAIN bookings :
                          /\ bookings[i].billboardId = query.billboardId
                          /\ i # query.excludeBookingId
                          /\ query.startDate <= bookings[i].endDate
                          /\ query.endDate >= bookings[i].startDate }
      IN /\ ~result.notFound
         /\ result.conflicts = expected
         /\ result.available = (expected = {})

\* a booking stored with a slot number on the static billboard for day 1
\* only blocks a request for another slot that shares just that day, and a
\* createBooking was refused for it
C2_Witness ==
  /\ response.call = "createBooking"
  /\ response.error = "not available"
  /\ \E i \in DOMAIN bookings :
       /\ isStatic(bookings[i].billboardId)
       /\ bookings[i].slotNumber = 1
       /\ bookings[i].startDate = 1 /\ bookings[i].endDate = 1
       /\ bookings[i].referenceCode \in response.conflicts
       /\ i \in checkAvailability(
                  [billboardId |-> bookings[i].billboardId, startDate |-> 1,
                   endDate |-> MaxDay, slotNumber |-> 2,
                   excludeBookingId |-> Undefined]).conflicts

\* C6: every stored booking has startDate <= endDate.
C6_DatesOrdered ==
  \A i \in DOMAIN bookings : bookings[i].startDate <= bookings[i].endDate

\* the stored bookings on billboard b in slot k whose range overlaps [s, e]
SlotHolders(b, k, s, e) ==
  { i \in DOMAIN bookings :
      /\ bookings[i].billboardId = b
      /\ bookings[i].slotNumber = k
      /\ Overlap(s, e, bookings[i].startDate, bookings[i].endDate) }

\* C3: on a digital billboard with slotCount = N, createBooking for a slot
\* number in 1..N succeeds whenever no stored booking holds that slot over
\* overlapping dates (bookings in other slots never conflict, so the N slots
\* can all be booked over identical dates), and it fails when the slot is
\* already booked over overlapping dates.
C3_DigitalSlots ==
  \A data \in AvailCreateBookingDtos :
    ( /\ data.billboardId \in BillboardIds
      /\ isDigital(data.billboardId)
      /\ data.slotNumber \in 1..billboards[data.billboardId].slotCount )
    => LET holders == SlotHolders(data.billboardId, data.slotNumber,
                                  data.startDate, data.endDate)
       IN createBookingResponse(data).error =
            (IF holders = {} THEN "" ELSE "not available")

\* every slot of D1 is booked over the same dates and one more createBooking
\* on it was refused
C3_Witness ==
  /\ response.call = "createBooking"
  /\ response.error = "not available"
  /\ \E s \in Days, e \in Days :
       /\ s <= e
       /\ \A k \in 1..billboards["D1"].slotCount :
            \E i \in DOMAIN bookings :
              /\ bookings[i].billboardId = "D1"
              /\ bookings[i].slotNumber = k
              /\ bookings[i].startDate = s /\ bookings[i].endDate = e
              /\ bookings[i].status = "created"

\* C4 (state part): a createBooking request that conflicts gets the error
\* "not available" listing one reference code per conflicting booking and
\* no other code.
C4_ConflictListed ==
  \A data \in AvailCreateBookingDtos :
    LET availability == checkAvailability(createBookingQuery(data))
        result == createBookingResponse(data)
    IN (~availability.notFound /\ availability.conflicts # {}) =>
         /\ result.error = "not available"
         /\ result.conflicts = {bookings[i].referenceCode : i \in availability.conflicts}
         /\ Cardinality(result.conflicts) = Cardinality(availability.conflicts)
         /\ \A i \in DOMAIN bookings :
              bookings[i].referenceCode \in result.conflicts
                => i \in availability.conflicts

\* C4 (step part): a createBooking refused as not available inserts no row
\* and draws no sequence number.
C4_ConflictChangesNothing ==
  (response'.call = "createBooking" /\ response'.error = "not available")
    => UNCHANGED <<bookings, nextBookingId, sequences, campaigns, nextCampaignId>>

\* C4: a conflicting createBooking fails with an error listing exactly the
\* conflicting bookings' reference codes, inserts no booking row and
\* consumes no booking sequence number.
C4_CreateConflict == []C4_ConflictListed /\ [][C4_ConflictChangesNothing]_vars

\* a createBooking was refused with the code of the stored booking it
\* conflicts with
C4_Witness ==
  /\ response.call = "createBooking"
  /\ response.error = "not available"
  /\ \E i \in DOMAIN bookings : response.conflicts = {bookings[i].referenceCode}
  /\ sequences["booking"] = Cardinality(DOMAIN bookings)

\* C7: checkAvailability never returns a booking whose status is
\* cancelled as a conflict.
C7_CancelledNeverConflicts ==
  \A query \in Queries :
    \A i \in checkAvailability(query).conflicts : bookings[i].status # "cancelled"

\* What the code does with a cancelled booking: checkAvailability does not
\* read the status, so the booking is returned as a conflict for every
\* request on its billboard and slot that overlaps its dates, and
\* createBooking and createCampaign for such a request fail naming it.
CancelledStillConflicts ==
  \A i \in DOMAIN bookings :
    bookings[i].status = "cancelled" =>
      \A s \in Days, e \in Days :
        Overlap(s, e, bookings[i].startDate, bookings[i].endDate) =>
          LET slot == IF bookings[i].slotNumber = Null THEN Undefined
                                                       ELSE bookings[i].slotNumber
              query == [billboardId |-> bookings[i].billboardId, startDate |-> s,
                        endDate |-> e, slotNumber |-> slot,
                        excludeBookingId |-> Undefined]
              create == createBookingResponse(
                          [customerId |-> "c1", billboardId |-> bookings[i].billboardId,
                           campaignId |-> Undefined, slotNumber |-> slot,
                           startDate |-> s, endDate |-> e,
                           notionalValue |-> Undefined, notes |-> UndefinedS])
              campaign == createCampaignResponse(
                            [customerId |-> "c1", startDate |-> s, endDate |-> e,
                             billboards |-> <<[billboardId |-> bookings[i].billboardId,
                                               slotNumber |-> slot]>>])
          IN /\ i \in checkAvailability(query).conflicts
             /\ create.error = "not available"
             /\ bookings[i].referenceCode \in create.conflicts
             /\ campaign.error = "not available"
             /\ bookings[i].referenceCode \in campaign.conflicts

\* a createBooking was refused because of a booking whose status is cancelled
CancelledBlocked ==
  /\ response.call = "createBooking"
  /\ response.error = "not available"
  /\ \E i \in DOMAIN bookings :
       /\ bookings[i].status = "cancelled"
       /\ response.conflicts = {bookings[i].referenceCode}

\* the other stored bookings that hold the billboard and slot of a query over
\* overlapping dates
OtherHolders(id, query) ==
  { j \in DOMAIN bookings \ {id} :
      /\ bookings[j].billboardId = query.billboardId
      /\ Overlap(query.startDate, query.endDate,
                 bookings[j].startDate, bookings[j].endDate)
      /\ \/ isStatic(query.billboardId)
         \/ query.slotNumber = Undefined
         \/ bookings[j].slotNumber = query.slotNumber }

\* C8 (state part): an updateBooking of an editable booking that sets
\* startDate, endDate, billboardId or slotNumber is refused as not available,
\* naming them, exactly when other bookings hold the target billboard and
\* slot over the new dates; the booking's own row never counts.
C8_UpdateChecksOthers ==
  \A id \in DOMAIN bookings : \A data \in AvailUpdateBookingDtos :
    ( /\ bookings[id].status \notin nonEditableStatuses
      /\ updateBookingChecks(data)
      /\ data.billboardId # NoBillboard )
    => LET target == updateBookingRow(id, data)
           others == OtherHolders(id,
                       [billboardId |-> target.billboardId,
                        startDate |-> target.startDate, endDate |-> target.endDate,
                        slotNumber |-> IF target.slotNumber = Null
                                         THEN Undefined ELSE target.slotNumber])
           result == updateBookingResponse(id, data)
       IN IF others = {}
            THEN result.error = ""
            ELSE /\ result.error = "not available"
                 /\ result.conflicts = {bookings[j].referenceCode : j \in others}

\* C8 (step part): a refused updateBooking leaves every booking unchanged.
C8_RefusedUpdateChangesNothing ==
  (response'.call = "updateBooking" /\ response'.error # "")
    => UNCHANGED <<bookings, nextBookingId, sequences, campaigns, nextCampaignId>>

\* C8: updateBooking re-checks availability with the booking's own id
\* excluded, fails without changing the booking when the new values overlap
\* another booking on the target billboard/slot, and never conflicts with
\* itself.
C8_UpdateExcludesSelf ==
  []C8_UpdateChecksOthers /\ [][C8_RefusedUpdateChangesNothing]_vars

\* an updateBooking was refused because of the other stored booking
C8_Witness ==
  /\ response.call = "updateBooking"
  /\ response.error = "not available"
  /\ Cardinality(DOMAIN bookings) = 2
  /\ \E i \in DOMAIN bookings : response.conflicts = {bookings[i].referenceCode}

\* C5 (state part): for a booking whose status is completed, po_generated or
\* invoiced, updateBooking answers every payload, one that only sets the
\* status included, with the "cannot edit" error.
C5_FinalizedRefused ==
  \A id \in DOMAIN bookings :
    bookings[id].status \in {"completed", "po_generated", "invoiced"} =>
      \A data \in UpdateBookingDtos :
        updateBookingResponse(id, data) = Fail("updateBooking", "Cannot edit booking")

\* C5 (step part): an updateBooking step on such a booking is refused and
\* leaves every field of every booking as it was.
C5_FinalizedUntouched ==
  response'.call = "updateBooking" =>
    \A id \in DOMAIN bookings : \A data \in LifeUpdateBookingDtos :
      ( /\ bookings[id].status \in {"completed", "po_generated", "invoiced"}
        /\ updateBooking(id, data) )
      => /\ response'.error = "Cannot edit booking"
         /\ bookings' = bookings

\* C5: updateBooking on a completed, po_generated or invoiced booking fails
\* for every payload and leaves every field of the booking unchanged.
C5_FinalizedNotEditable == []C5_FinalizedRefused /\ [][C5_FinalizedUntouched]_vars

\* an updateBooking on an invoiced booking was refused
C5_Witness ==
  /\ response = Fail("updateBooking", "Cannot edit booking")
  /\ \E id \in DOMAIN bookings : bookings[id].status = "invoiced"

\* the short-close requests the code must refuse for booking id
shortCloseRefusable(id, actualEndDate) ==
  \/ bookings[id].status \notin {"created", "confirmed", "active"}
  \/ actualEndDate >= bookings[id].endDate
  \/ actualEndDate < bookings[id].startDate

\* C9 (state part): shortCloseBooking answers with an error when the status
\* is not created, confirmed or active, when actualEndDate >= endDate, or
\* when actualEndDate < startDate.
C9_ShortCloseRefused ==
  \A id \in DOMAIN bookings : \A actualEndDate \in Days :
    shortCloseRefusable(id, actualEndDate)
      => shortCloseBookingResponse(id, actualEndDate).error # ""

\* C9 (step part): such a shortCloseBooking step leaves every booking
\* unchanged.
C9_ShortCloseRefusedUntouched ==
  response'.call = "shortCloseBooking" =>
    \A id \in DOMAIN bookings : \A actualEndDate \in Days : \A reason \in Reasons :
      ( /\ shortCloseRefusable(id, actualEndDate)
        /\ shortCloseBooking(id, actualEndDate, reason) )
      => /\ response'.error # ""
         /\ bookings' = bookings

\* C9: shortCloseBooking fails, leaving the booking unchanged, when the
\* status is not one of created, confirmed, active, when actualEndDate >=
\* endDate (equality included), or when actualEndDate < startDate.
C9_ShortCloseFails == []C9_ShortCloseRefused /\ [][C9_ShortCloseRefusedUntouched]_vars

\* a short close on the booking's own endDate was refused
C9_Witness ==
  /\ response = Fail("shortCloseBooking",
                     "Actual end date must be before the original end date")
  /\ \E id \in DOMAIN bookings :
       /\ bookings[id].status \in shortCloseStatuses
       /\ bookings[id].startDate < bookings[id].endDate
       /\ bookings[id].actualEndDate = Null

\* s is a prefix of t
IsPrefix(s, t) == Len(s) <= Len(t) /\ \A k \in 1..Len(s) : t[k] = s[k]

\* C10 (step part): a shortCloseBooking step that succeeds sets the status to
\* completed and actualEndDate to the given date, which lies in
\* [startDate, endDate), puts the reason at the end of the notes after what
\* they held, and changes no other field of the booking and no other row.
C10_ShortCloseStep ==
  (response'.call = "shortCloseBooking" /\ response'.error = "") =>
    \A id \in BookingIds : \A actualEndDate \in Days : \A reason \in Reasons :
      shortCloseBooking(id, actualEndDate, reason) =>
        /\ id \in DOMAIN bookings
        /\ DOMAIN bookings' = DOMAIN bookings
        /\ bookings'[id].status = "completed"
        /\ bookings'[id].actualEndDate = actualEndDate
        /\ bookings[id].startDate <= actualEndDate
        /\ actualEndDate < bookings[id].endDate
        /\ IsPrefix(bookings[id].notes, bookings'[id].notes)
        /\ Len(bookings'[id].notes) > Len(bookings[id].notes)
        /\ bookings'[id].notes[Len(bookings'[id].notes)] = reason
        /\ bookings'[id].startDate = bookings[id].startDate
        /\ bookings'[id].endDate = bookings[id].endDate
        /\ bookings'[id].billboardId = bookings[id].billboardId
        /\ bookings'[id].slotNumber = bookings[id].slotNumber
        /\ bookings'[id].notionalValue = bookings[id].notionalValue
        /\ bookings'[id].campaignId = bookings[id].campaignId
        /\ bookings'[id].customerId = bookings[id].customerId
        /\ bookings'[id].referenceCode = bookings[id].referenceCode
        /\ \A j \in DOMAIN bookings \ {id} : bookings'[j] = bookings[j]

\* C10: a successful shortCloseBooking sets status to completed and
\* actualEndDate to the given date with startDate <= actualEndDate < endDate,
\* appends the reason to notes, and leaves startDate, endDate, billboardId,
\* slotNumber, notionalValue and campaignId unchanged.
C10_ShortCloseEffects == [][C10_ShortCloseStep]_vars

\* a booking with notes was short closed before its endDate
C10_Witness ==
  /\ response = Ok("shortCloseBooking")
  /\ \E id \in DOMAIN bookings :
       /\ bookings[id].status = "completed"
       /\ bookings[id].actualEndDate # Null
       /\ bookings[id].actualEndDate < bookings[id].endDate
       /\ Len(bookings[id].notes) = 3
       /\ bookings[id].notes[1] = "n"
       /\ bookings[id].notes[3] \in Reasons

\* the stored bookings that hold the billboard and slot of the k-th selection
\* of a campaign request over the campaign range
SelectionHolders(data, k) ==
  LET selection == data.billboards[k]
  IN { i \in DOMAIN bookings :
         /\ bookings[i].billboardId = selection.billboardId
         /\ Overlap(data.startDate, data.endDate,
                    bookings[i].startDate, bookings[i].endDate)
         /\ \/ isStatic(selection.billboardId)
            \/ selection.slotNumber = Undefined
            \/ bookings[i].slotNumber = selection.slotNumber }

\* the campaign requests C11 names: no selection, a date missing, a billboard
\* id that does not exist, or a selection that conflicts with a stored booking
createCampaignRefusable(data) ==
  \/ Len(data.billboards) = 0
  \/ data.startDate = Undefined
  \/ data.endDate = Undefined
  \/ \E k \in 1..Len(data.billboards) : data.billboards[k].billboardId \notin BillboardIds
  \/ \E k \in 1..Len(data.billboards) : SelectionHolders(data, k) # {}

\* C11 (state part): createCampaign answers with an error when the selection
\* is empty, a date is missing, a billboard id does not exist or a selection
\* conflicts with a stored booking over the campaign range.
C11_CampaignRefused ==
  \A data \in AnyCreateCampaignDtos :
    createCampaignRefusable(data) => createCampaignResponse(data).error # ""

\* C11 (step part): a createCampaign step that answers with an error
\* persists no campaign row and no booking row and draws no sequence number.
C11_CampaignRefusedUntouched ==
  (response'.call = "createCampaign" /\ response'.error # "")
    => UNCHANGED <<bookings, nextBookingId, campaigns, nextCampaignId, sequences>>

\* C11: createCampaign fails on an empty selection, a missing date, an
\* unknown billboard id or a conflicting selection, and then persists no
\* campaign, no booking and consumes no campaign or booking sequence number.
C11_CampaignFailsClean == []C11_CampaignRefused /\ [][C11_CampaignRefusedUntouched]_vars

\* a createCampaign was refused because one of its selections conflicts with
\* a stored booking, and the tables hold that booking alone
C11_Witness ==
  /\ response.call = "createCampaign"
  /\ response.error = "not available"
  /\ campaigns = <<>>
  /\ Cardinality(DOMAIN bookings) = 1
  /\ sequences["campaign"] = 0
  /\ sequences["booking"] = 1
  /\ \E i \in DOMAIN bookings : response.conflicts = {bookings[i].referenceCode}

\* two selections of one request that do not take the same place: different
\* billboards, or one digital billboard with two different slot numbers
SelectionsApart(a, b) ==
  \/ a.billboardId # b.billboardId
  \/ /\ isDigital(a.billboardId)
     /\ a.slotNumber # Undefined /\ b.slotNumber # Undefined
     /\ a.slotNumber # b.slotNumber

\* a campaign request whose billboards all exist and whose selections are
\* free over the campaign range, in the table and among themselves
createCampaignFree(data) ==
  /\ Len(data.billboards) > 0
  /\ data.startDate # Undefined /\ data.endDate # Undefined
  /\ \A k \in 1..Len(data.billboards) :
       /\ data.billboards[k].billboardId \in BillboardIds
       /\ SelectionHolders(data, k) = {}
  /\ \A j \in 1..Len(data.billboards) : \A k \in 1..Len(data.billboards) :
       j # k => SelectionsApart(data.billboards[j], data.billboards[k])

\* C12: createCampaign succeeds for every selection list whose billboards all
\* exist and whose (billboardId, slotNumber) pairs are all free over the
\* campaign range, lists that name one digital billboard more than once with
\* different slot numbers included.
C12_FreeCampaignSucceeds ==
  \A data \in AnyCreateCampaignDtos :
    createCampaignFree(data) => createCampaignResponse(data).error = ""

\* the same for lists that name every billboard once: these the code accepts
FreeCampaignOfDistinctBillboards ==
  \A data \in AnyCreateCampaignDtos :
    ( /\ createCampaignFree(data)
      /\ \A j \in 1..Len(data.billboards) : \A k \in 1..Len(data.billboards) :
           j # k => data.billboards[j].billboardId # data.billboards[k].billboardId )
    => createCampaignResponse(data).error = ""

\* C13: each campaign's totalValue equals the sum of the notionalValue of the
\* bookings that currently reference it.
C13_TotalValueIsSum ==
  \A c \in DOMAIN campaigns :
    campaigns[c].totalValue = sumNotional(bookings, campaignMembers(bookings, c))

\* the totals of campaign c are those of its current members
TotalsOfMembers(c) ==
  LET members == campaignMembers(bookings, c)
  IN /\ campaigns[c].totalValue = sumNotional(bookings, members)
     /\ IF members = {}
          THEN campaigns[c].startDate = Null /\ campaigns[c].endDate = Null
          ELSE /\ \E i \in members : campaigns[c].startDate = bookings[i].startDate
               /\ \A i \in members : campaigns[c].startDate <= bookings[i].startDate
               /\ \E i \in members : campaigns[c].endDate = bookings[i].endDate
               /\ \A i \in members : campaigns[c].endDate >= bookings[i].endDate

\* C14 (state part): addBookingToCampaign answers with an error when the
\* booking's customer is not the campaign's customer.
C14_OtherCustomerRefused ==
  \A c \in DOMAIN campaigns : \A b \in DOMAIN bookings :
    bookings[b].customerId # campaigns[c].customerId
      => addBookingToCampaignResponse(c, b).error # ""

\* C14 (step part): a refused addBookingToCampaign leaves every booking's
\* campaignId as it was, and after a successful addBookingToCampaign or
\* removeBookingFromCampaign on campaign c the totals of c are those of its
\* members.
C14_MembershipStep ==
  /\ (response'.call = "addBookingToCampaign" /\ response'.error # "")
       => bookings' = bookings
  /\ (response'.call \in {"addBookingToCampaign", "removeBookingFromCampaign"}
        /\ response'.error = "")
       => \A c \in CampaignIds : \A b \in BookingIds :
            (addBookingToCampaign(c, b) \/ removeBookingFromCampaign(c, b))
              => /\ c \in DOMAIN campaigns
                 /\ TotalsOfMembers(c)'

\* C14: addBookingToCampaign fails, leaving the booking's campaignId
\* unchanged, when the customers differ; after a successful
\* addBookingToCampaign or removeBookingFromCampaign on campaign C, C's
\* totalValue is the sum of its members' notional values and its
\* startDate/endDate are the min startDate / max endDate of its members
\* (null without members).
C14_Membership == []C14_OtherCustomerRefused /\ [][C14_MembershipStep]_vars

\* a booking was added to a campaign whose dates it widened
C14_Witness ==
  /\ response = Ok("addBookingToCampaign")
  /\ \E c \in DOMAIN campaigns :
       /\ Cardinality(campaignMembers(bookings, c)) = 2
       /\ campaigns[c].startDate < campaigns[c].endDate
       /\ \A i \in campaignMembers(bookings, c) :
            bookings[i].startDate = bookings[i].endDate

\* the createPurchaseOrder requests C15 names: the booking does not exist, it
\* has a purchase order already, or its status is not completed, confirmed
\* or active
createPurchaseOrderRefusable(data) ==
  \/ data.bookingId \notin DOMAIN bookings
  \/ \E p \in DOMAIN purchaseOrders : purchaseOrders[p].bookingId = data.bookingId
  \/ bookings[data.bookingId].status \notin {"completed", "confirmed", "active"}

\* C15 (state part): createPurchaseOrder answers such a request with an
\* error, and no booking has two purchase orders.
C15_PurchaseOrderRefused ==
  /\ \A data \in CreatePurchaseOrderDtos :
       createPurchaseOrderRefusable(data)
         => createPurchaseOrderResponse(data).error # ""
  /\ \A b \in BookingIds : Cardinality(purchaseOrdersOf(b)) <= 1

\* C15 (step part): a refused createPurchaseOrder creates no purchase order
\* and leaves every booking as it was; after a successful one the booking has
\* exactly one purchase order and the status po_generated.
C15_PurchaseOrderStep ==
  /\ (response'.call = "createPurchaseOrder" /\ response'.error # "")
       => UNCHANGED <<bookings, purchaseOrders, nextPurchaseOrderId, sequences>>
  /\ (response'.call = "createPurchaseOrder" /\ response'.error = "")
       => \A data \in CreatePurchaseOrderDtos :
            createPurchaseOrder(data)
              => /\ Cardinality(purchaseOrdersOf(data.bookingId)') = 1
                 /\ bookings'[data.bookingId].status = "po_generated"

\* C15: createPurchaseOrder fails, creating no purchase order and leaving the
\* booking's status unchanged, when the booking does not exist, already has a
\* purchase order, or is not completed, confirmed or active; on success the
\* booking has exactly one purchase order and status po_generated, and no
\* booking ever has two purchase orders.
C15_OnePurchaseOrder == []C15_PurchaseOrderRefused /\ [][C15_PurchaseOrderStep]_vars

\* a second purchase order was refused for a booking whose status had been
\* set back to one that createPurchaseOrder accepts
C15_Witness ==
  /\ response = Fail("createPurchaseOrder",
                     "Purchase order already exists for this booking")
  /\ \E b \in DOMAIN bookings :
       /\ bookings[b].status \in poStatuses
       /\ Cardinality(purchaseOrdersOf(b)) = 1

\* C16 (state part): while deletePurchaseOrder is between its two writes the
\* purchase order row still exists and its booking's status is completed.
C16_RevertedBeforeDeleted ==
  \A caller \in DOMAIN running :
    running[caller].call = "deletePurchaseOrder" =>
      /\ running[caller].id \in DOMAIN purchaseOrders
      /\ bookings[purchaseOrders[running[caller].id].bookingId].status = "completed"

\* C16 (step part): the second write removes the purchase order row; after
\* it the booking has no purchase order, its status is completed and
\* createPurchaseOrder accepts it again.
C16_DeletedStep ==
  \A caller \in DOMAIN running :
    (running[caller].call = "deletePurchaseOrder" /\ caller \notin DOMAIN running')
      => LET b == purchaseOrders[running[caller].id].bookingId
         IN /\ running[caller].id \notin DOMAIN purchaseOrders'
            /\ purchaseOrdersOf(b)' = {}
            /\ bookings'[b].status = "completed"
            /\ \A data \in CreatePurchaseOrderDtos :
                 data.bookingId = b => (createPurchaseOrderResponse(data).error = "")'

SixStatuses == {"created", "confirmed", "active", "completed", "po_generated", "invoiced"}

\* C17 (state part): updateBookingStatus answers a status outside the six
\* with an error, and a status among them without one.
C17_StatusValidated ==
  \A id \in BookingIds : \A s \in StatusInputs :
    (updateBookingStatusResponse(id, s).error # "") = (s \notin SixStatuses)

\* C17 (step part): an updateBookingStatus step with a status outside the six
\* changes nothing; with one of the six it sets the booking's status to it,
\* whatever the status was, and changes no other field and no other row.
C17_StatusStep ==
  response'.call = "updateBookingStatus" =>
    \A id \in BookingIds : \A s \in StatusInputs :
      updateBookingStatus(id, s) =>
        IF s \notin SixStatuses
          THEN /\ response'.error # ""
               /\ UNCHANGED <<bookings, campaigns, purchaseOrders, sequences>>
          ELSE /\ response'.error = ""
               /\ DOMAIN bookings' = DOMAIN bookings
               /\ \A i \in DOMAIN bookings :
                    bookings'[i] = IF i = id THEN [bookings[i] EXCEPT !.status = s]
                                             ELSE bookings[i]
               /\ UNCHANGED <<campaigns, purchaseOrders, sequences>>

\* C17: updateBookingStatus fails and changes nothing for a status outside
\* created, confirmed, active, completed, po_generated, invoiced; for one of
\* them it sets the booking's status from any current status and changes no
\* other business field.
C17_StatusUpdate == []C17_StatusValidated /\ [][C17_StatusStep]_vars

\* a booking that was short closed (completed, with its actualEndDate set) was
\* put back to created
C17_Witness ==
  /\ response = Ok("updateBookingStatus")
  /\ \E i \in DOMAIN bookings :
       /\ bookings[i].status = "created"
       /\ bookings[i].actualEndDate # Null

\* C18 (state part): deleteBooking answers with an error for a missing
\* booking and for a booking that is confirmed, active, completed,
\* po_generated or invoiced.
C18_DeleteRefused ==
  \A id \in BookingIds :
    ( \/ id \notin DOMAIN bookings
      \/ bookings[id].status \in {"confirmed", "active", "completed",
                                  "po_generated", "invoiced"} )
    => deleteBookingResponse(id).error # ""

\* C18 (step part): a refused deleteBooking leaves the stored bookings as
\* they were; a successful one removes one booking, whose status was created,
\* and nothing else.
C18_DeleteStep ==
  response'.call = "deleteBooking" =>
    IF response'.error # ""
      THEN bookings' = bookings
      ELSE \E id \in DOMAIN bookings :
             /\ bookings[id].status = "created"
             /\ DOMAIN bookings' = DOMAIN bookings \ {id}
             /\ \A i \in DOMAIN bookings' : bookings'[i] = bookings[i]

\* C18: deleteBooking removes the booking only when its status is exactly
\* created; for a missing booking or one that is confirmed, active,
\* completed, po_generated or invoiced it fails and the stored bookings are
\* unchanged.
C18_DeleteOnlyCreated == []C18_DeleteRefused /\ [][C18_DeleteStep]_vars

\* a deleteBooking of a confirmed booking was refused
C18_Witness ==
  /\ response = Fail("deleteBooking", "Only bookings in created status can be deleted")
  /\ \E i \in DOMAIN bookings : bookings[i].status = "confirmed"

\* the positions of returned that hold a code of the entity type
returnedOf(entityType) ==
  {i \in DOMAIN returned : returned[i][1] = SEQUENCE_PREFIXES[entityType]}

\* the number a code carries: its digits read as a decimal number
numericPart(code) ==
  LET digits == code[3]
  IN IF Len(digits) = 4
       THEN 1000 * digits[1] + 100 * digits[2] + 10 * digits[3] + digits[4]
       ELSE digits[1]

\* the values getNextSequence calls hold that have not returned yet
valuesUnderWay(entityType) ==
  {running[c].nextValue : c \in {c \in DOMAIN running :
                                   /\ running[c].call = "getNextSequence"
                                   /\ running[c].entityType = entityType}}

\* C19 (state part): the codes returned so far are pairwise distinct, and for
\* each entity type the numbers returned, with the numbers of the calls still
\* under way, are exactly 1 up to the number of calls made, once each.
C19_CodesDistinct ==
  /\ \A i, j \in DOMAIN returned : i # j => returned[i] # returned[j]
  /\ \A entityType \in SequenceEntityType :
       LET parts == {numericPart(returned[i]) : i \in returnedOf(entityType)}
           callsMade == Cardinality(returnedOf(entityType))
                        + Cardinality({c \in DOMAIN running :
                                         /\ running[c].call = "getNextSequence"
                                         /\ running[c].entityType = entityType})
       IN /\ parts \cup valuesUnderWay(entityType) = 1..callsMade
          /\ Cardinality(parts) = Cardinality(returnedOf(entityType))
          /\ sequences[entityType] = callsMade

\* C19 (step part): each call's number is one more than that of the call
\* before it for the same entity type, starting at 1, and the call leaves the
\* counters of the other entity types as they were.
C19_SequenceStep ==
  \A caller \in Callers :
    (caller \notin DOMAIN running /\ caller \in DOMAIN running'
       /\ running'[caller].call = "getNextSequence")
    => LET entityType == running'[caller].entityType
       IN /\ running'[caller].nextValue = sequences[entityType] + 1
          /\ sequences'[entityType] = sequences[entityType] + 1
          /\ \A other \in SequenceEntityType \ {entityType} :
               sequences'[other] = sequences[other]

\* C19: the codes getNextSequence returns for one entity type within one year
\* are pairwise distinct, their numbers go up by one per call from 1 on, for
\* any interleaving of concurrent callers, and a call for one entity type
\* never changes the counter of another.
C19_SequenceCodes == []C19_CodesDistinct /\ [][C19_SequenceStep]_vars

\* two callers were under way at once for the same entity type and the one
\* that drew its number second returned first
C19_Witness ==
  /\ Len(returned) >= 2
  /\ returned[1][1] = returned[2][1]
  /\ numericPart(returned[1]) = 2
  /\ numericPart(returned[2]) = 1
  /\ sequences["po"] > 0

\* the stored bookings on billboard b, in any slot, whose range overlaps [s, e]
BillboardHolders(b, s, e) ==
  { i \in DOMAIN bookings :
      /\ bookings[i].billboardId = b
      /\ Overlap(s, e, bookings[i].startDate, bookings[i].endDate) }

\* C20 (the engine): asked about a digital billboard without a slot number,
\* checkAvailability returns every stored booking on the billboard that
\* overlaps the range, whatever its slot (the excluded booking apart).
C20_EveryOverlapConflicts ==
  \A query \in Queries :
    (isDigital(query.billboardId) /\ query.slotNumber = Undefined)
    => checkAvailability(query).conflicts =
         BillboardHolders(query.billboardId, query.startDate, query.endDate)
           \ {query.excludeBookingId}

\* C20 (createBooking): without a slot on a digital billboard it is refused
\* as soon as one booking, in any slot, overlaps the dates, and not otherwise.
C20_NoSlotRefused ==
  \A data \in AvailCreateBookingDtos :
    ( /\ data.billboardId \in BillboardIds
      /\ isDigital(data.billboardId)
      /\ data.slotNumber = Undefined )
    => createBookingResponse(data).error =
         (IF BillboardHolders(data.billboardId, data.startDate, data.endDate) = {}
            THEN "" ELSE "not available")

\* C20: when checkAvailability is called for a digital billboard without a
\* slotNumber, every stored booking on that billboard overlapping the range
\* is a conflict, whatever slot it occupies, so createBooking without a slot
\* on a digital billboard fails as soon as any one slot is booked over
\* overlapping dates.
C20_DigitalWithoutSlot == C20_EveryOverlapConflicts /\ C20_NoSlotRefused

\* two bookings hold different slots of D1 over different days, and a
\* createBooking on D1 was refused for conflicting with both: it named no slot
C20_Witness ==
  /\ response.call = "createBooking"
  /\ response.error = "not available"
  /\ \E i, j \in DOMAIN bookings :
       /\ bookings[i].billboardId = "D1" /\ bookings[j].billboardId = "D1"
       /\ bookings[i].slotNumber = 1 /\ bookings[j].slotNumber = 2
       /\ ~Overlap(bookings[i].startDate, bookings[i].endDate,
                   bookings[j].startDate, bookings[j].endDate)
       /\ response.conflicts = {bookings[i].referenceCode, bookings[j].referenceCode}

\* the slot numbers a sequence lists
Range(seq) == {seq[k] : k \in DOMAIN seq}

\* C21 (the report): getAvailableBillboards has an entry for each active
\* billboard and for no other; a digital billboard's availableSlots are the
\* slots of 1..slotCount that no stored booking with that slot holds over the
\* range, and it is available iff there is one; a static billboard is
\* available iff no stored booking on it overlaps the range.
C21_Report ==
  \A startDate \in Days, endDate \in Days :
    LET report == getAvailableBillboardsResult(startDate, endDate)
    IN /\ DOMAIN report = {b \in DOMAIN billboards : billboards[b].status = "active"}
       /\ \A b \in DOMAIN report :
            IF isDigital(b)
              THEN LET freeSlots == {k \in 1..billboards[b].slotCount :
                                       SlotHolders(b, k, startDate, endDate) = {}}
                   IN /\ Range(report[b].availableSlots) = freeSlots
                      /\ Len(report[b].availableSlots) = Cardinality(freeSlots)
                      /\ report[b].isAvailable = (freeSlots # {})
              ELSE report[b].isAvailable =
                     (BillboardHolders(b, startDate, endDate) = {})

\* C21 (the step): a getAvailableBillboards call returns that report and
\* changes no stored state.
C21_ListingStep ==
  response'.call = "getAvailableBillboards" =>
    /\ \E startDate \in Days, endDate \in Days :
         response'.result = getAvailableBillboardsResult(startDate, endDate)
    /\ UNCHANGED <<bookings, nextBookingId, campaigns, nextCampaignId, purchaseOrders,
                   nextPurchaseOrderId, sequences>>

\* C21: getAvailableBillboards reports, for each active billboard and no
\* other, the free slots of a digital billboard (available iff there is
\* one) or whether a static billboard has no overlapping booking, and
\* changes no stored state.
C21_AvailableBillboards == []C21_Report /\ [][C21_ListingStep]_vars

\* a listing over days with a booking without a slot on D1 and one on S1:
\* D1 is listed as available with both slots free though the query without a
\* slot conflicts, S1 is listed as unavailable, M1 is not listed
C21_Witness ==
  /\ response.call = "getAvailableBillboards"
  /\ DOMAIN response.result = {"S1", "D1"}
  /\ response.result["D1"].isAvailable
  /\ response.result["D1"].availableSlots = <<1, 2>>
  /\ response.result["D1"].conflicts # {}
  /\ ~response.result["S1"].isAvailable

\* the calendar days from startDate to endDate, both included
CalendarDays(startDate, endDate) == {d \in Int : startDate <= d /\ d <= endDate}

\* C22 (creation): a createBooking without a notionalValue stores a booking
\* with status created whose notionalValue is the billboard's ratePerDay
\* times the number of days from startDate to endDate inclusive.
C22_CreatedValue ==
  \A data \in CampCreateBookingDtos :
    ( /\ data.notionalValue = Undefined
      /\ data.startDate <= data.endDate
      /\ createBooking(data)
      /\ response'.error = "" )
    => LET row == bookings'[nextBookingId']
           days == Cardinality({d \in Days : d \in CalendarDays(data.startDate, data.endDate)})
       IN /\ nextBookingId' \notin DOMAIN bookings
          /\ row.status = "created"
          /\ row.notionalValue = billboards[data.billboardId].ratePerDay * days

\* C22 (later edits): an updateBooking whose payload carries only dates
\* leaves the booking's notionalValue as it was.
C22_DatesKeepValue ==
  \A id \in BookingIds : \A data \in CampUpdateBookingDtos :
    ( /\ data.startDate # Undefined \/ data.endDate # Undefined
      /\ updateBooking(id, data)
      /\ response'.error = "" )
    => bookings'[id].notionalValue = bookings[id].notionalValue

\* C22: a booking created without a caller-supplied notionalValue has status
\* created and notionalValue = ratePerDay x inclusive days (5 days at rate
\* 1000 give 5000); a later updateBooking that changes only dates leaves the
\* notionalValue at the value fixed at creation.
C22_NotionalValue ==
  /\ [](notionalFor("S1", 1, 5) = 5000)
  /\ [][C22_CreatedValue /\ C22_DatesKeepValue]_vars

\* a booking on S1 made for two days at 2000 was cut to one day by an
\* updateBooking and still carries 2000
C22_Witness ==
  /\ response = Ok("updateBooking")
  /\ calls = 2
  /\ \E i \in DOMAIN bookings :
       /\ bookings[i].billboardId = "S1"
       /\ bookings[i].startDate = bookings[i].endDate
       /\ bookings[i].notionalValue = 2 * billboards["S1"].ratePerDay

\* the number of days from startDate to endDate, both included
DayCount(startDate, endDate) ==
  Cardinality({d \in Days : startDate <= d /\ d <= endDate})

\* C23 (the figures): calculateProRataValue fails for a booking that is not
\* stored; for a stored one, its day counts are the inclusive day counts of
\* the actual and of the booked period, actualValue is ratePerDay times the
\* actual days and adjustment is actualValue less the notionalValue.
C23_Figures ==
  \A id \in BookingIds : \A actualStartDate \in Days, actualEndDate \in Days :
    LET outcome == calculateProRataValueResponse(id, actualStartDate, actualEndDate)
    IN IF id \notin DOMAIN bookings
         THEN outcome.error # ""
         ELSE LET booking == bookings[id]
                  rate == billboards[booking.billboardId].ratePerDay
              IN /\ outcome.error = ""
                 /\ actualStartDate <= actualEndDate =>
                      /\ outcome.result.actualDays = DayCount(actualStartDate, actualEndDate)
                      /\ outcome.result.actualValue =
                           rate * DayCount(actualStartDate, actualEndDate)
                 /\ booking.startDate <= booking.endDate =>
                      outcome.result.originalDays =
                        DayCount(booking.startDate, booking.endDate)
                 /\ outcome.result.adjustment =
                      outcome.result.actualValue - booking.notionalValue

\* C23 (the example): notional 10000 over 10 days, 7 actual days at 1000 a
\* day: 7000, -3000, -30.00 percent.
C23_Example ==
  LET figures == proRata([startDate |-> 1, endDate |-> 10, notionalValue |-> 10000],
                         1000, 1, 7)
  IN /\ figures.originalDays = 10 /\ figures.actualDays = 7
     /\ figures.actualValue = 7000
     /\ figures.adjustment = -3000
     /\ figures.adjustmentPercentage = -3000

\* C23 (the step): a calculateProRataValue call answers with those figures
\* and changes no stored state.
C23_ProRataStep ==
  response'.call = "calculateProRataValue" =>
    /\ \E id \in BookingIds, actualStartDate \in Days, actualEndDate \in Days :
         response' = calculateProRataValueResponse(id, actualStartDate, actualEndDate)
    /\ UNCHANGED <<bookings, nextBookingId, campaigns, nextCampaignId, purchaseOrders,
                   nextPurchaseOrderId, sequences>>

\* C23: calculateProRataValue returns the inclusive day counts of the actual
\* and the booked period, actualValue = ratePerDay x actualDays and
\* adjustment = actualValue - notionalValue (10000 over 10 days, 7 actual
\* days: 7000, -3000, -30.00 percent), fails when the booking or its
\* billboard cannot be resolved, and changes no stored state.
C23_ProRata == [](C23_Figures /\ C23_Example) /\ [][C23_ProRataStep]_vars

\* a two-day booking on S1 at 2000 was asked about for one actual day: 1000,
\* 1000 less, 50 percent less
C23_Witness ==
  /\ response.call = "calculateProRataValue"
  /\ response.error = ""
  /\ response.result.originalDays = 2
  /\ response.result.actualDays = 1
  /\ response.result.actualValue = 1000
  /\ response.result.adjustment = -1000
  /\ response.result.adjustmentPercentage = -5000

\* the handlers under way that are before the named statement of the call
Before(call, pc) ==
  {c \in DOMAIN running : running[c].call = call /\ running[c].pc = pc}

\* C24 (the insert): a createBooking that has passed its check is not
\* refused by the insert, whatever was stored since the check; only a
\* missing campaign refuses it.
C24_InsertNotRefused ==
  \A caller \in Before("createBooking", "insert") :
    LET data == running[caller].data
    IN (data.campaignId = Undefined \/ data.campaignId \in DOMAIN campaigns)
       => createBookingInsertResponse(caller).error = ""

\* C24 (the step): the insert of a createBooking or of a createCampaign under
\* way stores the request's row as the check left it and keeps every stored
\* row, whether or not the new row overlaps one of them.
C24_InsertStep ==
  /\ \A caller \in Before("createBooking", "insert") :
       (caller \notin DOMAIN running' /\ response'.error = "")
       => LET data == running[caller].data
              row == bookings'[nextBookingId']
          IN /\ nextBookingId' = nextBookingId + 1
             /\ row.billboardId = data.billboardId
             /\ row.startDate = data.startDate /\ row.endDate = data.endDate
             /\ row.slotNumber = (IF data.slotNumber = Undefined
                                    THEN Null ELSE data.slotNumber)
             /\ \A i \in DOMAIN bookings : bookings'[i] = bookings[i]
  /\ \A caller \in Before("createCampaign", "insertBooking") :
       (caller \in DOMAIN running' /\ running'[caller] # running[caller])
       => LET data == running[caller].data
              selection == data.billboards[running[caller].k]
              row == bookings'[nextBookingId']
          IN /\ nextBookingId' = nextBookingId + 1
             /\ row.billboardId = selection.billboardId
             /\ row.startDate = data.startDate /\ row.endDate = data.endDate
             /\ \A i \in DOMAIN bookings : bookings'[i] = bookings[i]

\* C24: no lock is held between the check and the insert: two create
\* requests for the same billboard, slot and overlapping dates whose checks
\* both run before either insert both pass and both insert, no storage
\* constraint rejects the second insert, and two overlapping bookings on the
\* same billboard and slot are stored.
C24_CheckThenInsert == []C24_InsertNotRefused /\ [][C24_InsertStep]_vars

\* two createBooking requests have stored overlapping bookings on the static
\* billboard
C24_Witness ==
  /\ response = Ok("createBooking")
  /\ \E i, j \in DOMAIN bookings :
       /\ i # j
       /\ bookings[i].billboardId = "S1" /\ bookings[j].billboardId = "S1"
       /\ bookings[i].campaignId = Null /\ bookings[j].campaignId = Null
       /\ Overlap(bookings[i].startDate, bookings[i].endDate,
                  bookings[j].startDate, bookings[j].endDate)

\* the bookings stored for a campaign
bookingsOf(campaignId) == {i \in DOMAIN bookings : bookings[i].campaignId = campaignId}

\* C25 (under way): from the insert of its campaign row to its last
\* statement, a createCampaign's campaign row is stored with totalValue 0,
\* with a booking for each selection handled so far.
C25_PartlyStored ==
  \A caller \in DOMAIN running :
    (running[caller].call = "createCampaign" /\ running[caller].pc \in afterCampaignInsert)
    => LET entry == running[caller]
       IN /\ entry.campaignId \in DOMAIN campaigns
          /\ campaigns[entry.campaignId].totalValue = 0
          /\ Cardinality(bookingsOf(entry.campaignId)) =
               (IF entry.pc = "total" THEN Len(entry.data.billboards) ELSE entry.k - 1)

\* C25 (the failure): a createCampaign that fails after its campaign row was
\* inserted leaves the tables as they are at the failure.
C25_FailureStep ==
  \A caller \in DOMAIN running :
    ( /\ running[caller].call = "createCampaign"
      /\ running[caller].pc \in afterCampaignInsert
      /\ caller \notin DOMAIN running'
      /\ response'.error # "" )
    => /\ UNCHANGED <<bookings, nextBookingId, campaigns, nextCampaignId, sequences>>
       /\ campaigns'[running[caller].campaignId].totalValue = 0

\* C25: createCampaign is not all-or-nothing once its checks have passed: if
\* a step fails after the campaign row is inserted, the campaign row and
\* every booking inserted before the failure remain stored, with totalValue
\* still 0, and nothing is rolled back.
C25_NotAllOrNothing == []C25_PartlyStored /\ [][C25_FailureStep]_vars

\* a createCampaign of two billboards failed after its first booking: the
\* campaign is stored with totalValue 0 and the booking on D1 alone
C25_Witness ==
  /\ response = Fail("createCampaign", "database error")
  /\ running = <<>>
  /\ \E c \in DOMAIN campaigns :
       /\ campaigns[c].totalValue = 0
       /\ \E i \in DOMAIN bookings :
            /\ bookingsOf(c) = {i}
            /\ bookings[i].billboardId = "D1"
            /\ bookings[i].notionalValue > 0

\* C26: in every reachable state every stored booking's status is one of
\* created, confirmed, active, completed, po_generated, invoiced.
C26_StatusAmongSix ==
  \A i \in DOMAIN bookings : bookings[i].status \in SixStatuses

\* C27: a purchase order exists for a booking if and only if the booking's
\* status is po_generated or invoiced.
C27_PurchaseOrderIffStatus ==
  \A b \in DOMAIN bookings :
    (purchaseOrdersOf(b) # {}) <=> (bookings[b].status \in {"po_generated", "invoiced"})

\* C27 as the code has it (state part): every purchase order is the purchase
\* order of a stored booking.
C27_PurchaseOrderHasBooking ==
  \A p \in DOMAIN purchaseOrders : purchaseOrders[p].bookingId \in DOMAIN bookings

\* C27 as the code has it (step part): createPurchaseOrder leaves its booking
\* with a purchase order and in po_generated, deletePurchaseOrder leaves it
\* without one and in completed; updateBookingStatus changes the status and
\* leaves the purchase orders alone, whatever the status and whether or not
\* there is a purchase order.
C27_PurchaseOrderStep ==
  /\ (response'.call = "createPurchaseOrder" /\ response'.error = "")
     => \E p \in DOMAIN purchaseOrders' \ DOMAIN purchaseOrders :
          LET b == purchaseOrders'[p].bookingId
          IN /\ bookings'[b].status = "po_generated"
             /\ purchaseOrdersOf(b) = {}
  /\ response' = Ok("deletePurchaseOrder")
     => \E p \in DOMAIN purchaseOrders \ DOMAIN purchaseOrders' :
          LET b == purchaseOrders[p].bookingId
          IN /\ bookings'[b].status = "completed"
             /\ (purchaseOrdersOf(b) = {})'
  /\ response' = Ok("updateBookingStatus") => purchaseOrders' = purchaseOrders

\* C27 as the code has it: every purchase order belongs to a stored booking;
\* createPurchaseOrder puts its booking into po_generated and
\* deletePurchaseOrder puts it back to completed, and between the two
\* updateBookingStatus moves the status freely without touching the purchase
\* orders, so the status does not tell whether a purchase order exists.
C27_PurchaseOrderAndStatus == []C27_PurchaseOrderHasBooking /\ [][C27_PurchaseOrderStep]_vars

\* updateBookingStatus has put a booking with a purchase order back to
\* created, and a deleteBooking of it was refused by the foreign key
C27_Witness ==
  /\ response = Fail("deleteBooking", "foreign key violation")
  /\ \E b \in DOMAIN bookings :
       /\ purchaseOrdersOf(b) # {}
       /\ bookings[b].status = "created"

\* the stored bookings that were short closed
shortClosed == {i \in DOMAIN bookings : bookings[i].actualEndDate # Null}

\* the queries on booking i's billboard and slot, made for another booking,
\* whose range overlaps i's [startDate, endDate]
queriesOver(i) ==
  {query \in Queries :
     /\ query.billboardId = bookings[i].billboardId
     /\ query.excludeBookingId # i
     /\ (isDigital(query.billboardId) /\ query.slotNumber # Undefined)
          => query.slotNumber = bookings[i].slotNumber
     /\ Overlap(query.startDate, query.endDate, bookings[i].startDate, bookings[i].endDate)}

\* C28 (state part): a short-closed booking is a conflict for every request
\* on its billboard and slot that overlaps [startDate, endDate], the
\* requests lying wholly after its actualEndDate included, in every status.
C28_WholeRangeBlocked ==
  \A i \in shortClosed : \A query \in queriesOver(i) :
    i \in checkAvailability(query).conflicts

\* C28 (step part): shortCloseBooking and the status changes that follow
\* leave the booking's startDate and endDate as they were.
C28_RangeKept ==
  response'.call \in {"shortCloseBooking", "updateBookingStatus"} =>
    \A i \in DOMAIN bookings :
      /\ i \in DOMAIN bookings'
      /\ bookings'[i].startDate = bookings[i].startDate
      /\ bookings'[i].endDate = bookings[i].endDate

\* C28: a short-closed booking keeps blocking its whole original range:
\* after shortCloseBooking with actualEndDate = d, checkAvailability still
\* reports it as a conflict for any request on the same billboard/slot that
\* overlaps [startDate, endDate], requests lying entirely after d included,
\* in every later status of the booking.
C28_ShortClosedStillBlocks == []C28_WholeRangeBlocked /\ [][C28_RangeKept]_vars

\* a booking was short closed before its endDate and is completed, it
\* conflicts with a request for the days after its actualEndDate, and a
\* createBooking was refused because of it
C28_Witness ==
  /\ response.call = "createBooking"
  /\ response.error = "not available"
  /\ \E i \in shortClosed :
       /\ bookings[i].status = "completed"
       /\ bookings[i].actualEndDate < bookings[i].endDate
       /\ response.conflicts = {bookings[i].referenceCode}
       /\ \E query \in queriesOver(i) :
            /\ query.startDate > bookings[i].actualEndDate
            /\ i \in checkAvailability(query).conflicts

\* the request that made the stored booking i, as a query
rowQuery(i) ==
  [billboardId |-> bookings[i].billboardId,
   startDate |-> bookings[i].startDate, endDate |-> bookings[i].endDate,
   slotNumber |-> IF bookings[i].slotNumber = Null THEN Undefined ELSE bookings[i].slotNumber,
   excludeBookingId |-> Undefined]

\* C29: conflict detection is symmetric in the order of creation: a request
\* B on the billboard of a stored booking A, with overlapping dates, is
\* refused because of A if and only if A's request would be refused on a
\* table holding B (so a booking stored without a slot on a digital
\* billboard blocks a later request for a slot, as a slot booking blocks a
\* later request without one).
C29_Symmetric ==
  \A i \in DOMAIN bookings : \A data \in AvailCreateBookingDtos :
    ( /\ data.billboardId = bookings[i].billboardId
      /\ Overlap(data.startDate, data.endDate, bookings[i].startDate, bookings[i].endDate) )
    => ( (i \in checkAvailability(createBookingQuery(data)).conflicts)
         <=> ~checkAvailabilityIn([j \in {1} |-> createBookingRow(data)],
                                  rowQuery(i)).available )

\* C30: every booking on a digital billboard with slotCount = N that carries
\* a slot number has 1 <= slotNumber <= N, and the number of bookings on the
\* billboard covering any single day never exceeds N.
C30_SlotsWithinCount ==
  \A b \in {x \in BillboardIds : isDigital(x)} :
    LET N == billboards[b].slotCount
        on == {i \in DOMAIN bookings : bookings[i].billboardId = b}
    IN /\ \A i \in on :
            bookings[i].slotNumber # Null =>
              (1 <= bookings[i].slotNumber /\ bookings[i].slotNumber <= N)
       /\ \A d \in Days :
            Cardinality({i \in on : bookings[i].startDate <= d /\ d <= bookings[i].endDate})
              <= N
====
